---------------------------- MODULE Spec2Model ----------------------------
(***************************************************************************)
(* A model of libserial's SerialPort (the Handle API): the device handle   *)
(* life cycle, the SIGIO-driven receive buffer with its shadow queue, and  *)
(* the deadline-bounded ReadByte; and of SerialStreamBuf (the Stream API): *)
(* its attribute setters and getters, its life cycle and its unbuffered    *)
(* input with one character of putback.                                    *)
(*                                                                         *)
(* Two execution contexts are modelled: the application thread (pc) and    *)
(* the notification context running HandlePosixSignal (hpc).  The          *)
(* environment delivers bytes to the device, raises SIGIO and advances     *)
(* the clock.                                                              *)
(***************************************************************************)
EXTENDS Integers, Sequences, FiniteSets, TLC

(***************************************************************************)
(* Bounds of the model.                                                    *)
(***************************************************************************)
\* Number of bytes the peer sends in one behaviour (the bytes are 1, 2, ...).
MaxBytes == 2
\* Number of OS calls that may fail in one behaviour.
MaxFail == 1
\* Number of clock advances in one behaviour.
MaxTicks == 3
\* Number of setter calls that succeed while the port is open once.
MaxConfig == 1
\* Number of characters uflow has returned before the last pbackfail call.
MaxTaken == 2
\* Number of modem line changes that succeed in one behaviour of SpecModem.
MaxModemCalls == 2

(***************************************************************************)
(* Program constants.                                                      *)
(***************************************************************************)
MICROSECONDS_PER_MS == 1000
MILLISECONDS_PER_SEC == 1000
MICROSECONDS_PER_SECOND == 1000000
\* Largest value of the C type int (32 bits).
INT_MAX == 2147483647

(***************************************************************************)
(* Variables.                                                              *)
(***************************************************************************)
VARIABLES
    \* SerialPort::Implementation data members
    mIsOpen, mFileDescriptor, mOldPortSettings, mInputBuffer,
    mShadowInputBuffer, mQueueMutex, mIsQueueDataAvailable,
    \* SerialStreamBuf::Implementation data members
    sbFileDescriptor,   \* mFileDescriptor of the stream buffer
    mPutbackChar, mPutbackAvailable,
    \* history of the stream buffer (observation only)
    sbTaken,      \* the characters uflow returned
    sbLast,       \* the last input call that returned, and its result
    sbOpened,     \* the last open() succeeded and no close() has since
    \* a second application thread inside ReadByte: its position and locals
    pc2, queueSize2, charBuffer2,
    returned2,    \* bytes ReadByte returned to the second thread (history)
    handledAtOpen, \* bytes the handler had read when the last Open began
    \* operating system and device
    osFds,        \* descriptor number -> its file status flags
    devAttr,      \* the termios of the device
    devBuf,       \* bytes waiting in the driver's input buffer
    modemLines,   \* the modem control lines that are asserted
    attached,     \* registrations of this handler with the dispatcher
    fails,        \* OS failures injected so far
    sigPending,   \* a SIGIO is pending for the process
    now,          \* the clock, in microseconds
    sent,         \* bytes delivered to the device so far
    ticks,        \* clock advances so far
    concurrent,   \* SIGIO is handled on a thread other than the caller's
    \* application thread: position, operation in progress, its outcome
    pc, call, err,
    \* arguments of the operation in progress
    msTimeout, numOfBytes, lineTerminator, argValue,
    \* locals of the operation in progress
    queueSize, entry_time, charBuffer, dataBuffer, rl_entry_time, result,
    \* notification context
    hpc, num_of_bytes_available, hi,
    \* history (observation only; never read by the program)
    hread,        \* bytes HandlePosixSignal read from the descriptor
    returned,     \* bytes ReadByte returned
    shadowed,     \* bytes that went through the shadow queue
    lastOk,       \* the last life cycle operation that succeeded
    snapAtOpen,   \* device attributes when the current Open began
    restoreOk,    \* tcsetattr of the last Close succeeded
    configured,   \* setter calls that succeeded since the last Open
    ioInCall,     \* the current call performed device I/O
    popInCall,    \* the current call removed a byte from mInputBuffer
    closedAtCall, \* the port was not open when the current call began
    accepted,     \* bytes the OS accepted from the current Write
    pushedInTime  \* a byte reached mInputBuffer before the deadline

lifeVars == <<mIsOpen, mFileDescriptor, mOldPortSettings>>
queueVars == <<mInputBuffer, mShadowInputBuffer, mQueueMutex,
               mIsQueueDataAvailable>>
objVars == <<lifeVars, queueVars>>
thrVars == <<pc2, queueSize2, charBuffer2, returned2>>
sbVars == <<sbFileDescriptor, mPutbackChar, mPutbackAvailable, sbTaken,
            sbLast, sbOpened>>
bufVars == <<sbVars, thrVars, handledAtOpen>>
devVars == <<osFds, devAttr, devBuf, modemLines>>
envVars == <<sigPending, now, sent, ticks, concurrent>>
osVars == <<devVars, attached, fails, envVars>>
argVars == <<msTimeout, numOfBytes, lineTerminator, argValue>>
locVars == <<queueSize, entry_time, charBuffer, dataBuffer, rl_entry_time,
             result>>
appVars == <<pc, call, err, argVars, locVars>>
sigVars == <<hpc, num_of_bytes_available, hi>>
streamHist == <<hread, returned, shadowed>>
lifeHist == <<lastOk, snapAtOpen, restoreOk, configured>>
callHist == <<ioInCall, popInCall, closedAtCall, accepted>>
histVars == <<streamHist, lifeHist, callHist, pushedInTime>>
vars == <<objVars, bufVars, osVars, appVars, sigVars, histVars>>

(***************************************************************************)
(* The terminal attributes (struct termios).                               *)
(***************************************************************************)
\* A termios cleared by bzero: every flag word 0, CS5 and B0 are the value 0.
ZeroTermios ==
    [c_iflag |-> {}, c_oflag |-> {}, c_cflag |-> {}, c_lflag |-> {},
     csize |-> "CS5", ispeed |-> "B0", ospeed |-> "B0",
     c_cc |-> [VMIN |-> 0, VTIME |-> 0, VSTART |-> 0, VSTOP |-> 0]]

\* The settings Open writes to the port.
OpenPortSettings ==
    [ZeroTermios EXCEPT !.c_cflag = {"CREAD", "CLOCAL"},
                        !.c_cc = [@ EXCEPT !.VMIN = 0, !.VTIME = 0]]

\* Attributes a terminal line has before the library touches it.
TtyCooked ==
    [c_iflag |-> {"ICRNL", "IXON"}, c_oflag |-> {"OPOST", "ONLCR"},
     c_cflag |-> {"CREAD", "HUPCL"}, c_lflag |-> {"ICANON", "ECHO", "ISIG"},
     csize |-> "CS8", ispeed |-> "B9600", ospeed |-> "B9600",
     c_cc |-> [VMIN |-> 1, VTIME |-> 0, VSTART |-> 17, VSTOP |-> 19]]


(***************************************************************************)
(* C arithmetic.                                                           *)
(***************************************************************************)
Abs(x) == IF x < 0 THEN -x ELSE x

\* Integer division of C: the quotient is truncated toward zero (b > 0).
CDiv(a, b) == IF a >= 0 THEN a \div b ELSE -((-a) \div b)

\* An unsigned int of 32 bits, kept as its top bit and its low 31 bits:
\* the value is hi * 2^31 + lo.
UInt(h, l) == [hi |-> h, lo |-> l]

\* The cast (int)u of an unsigned int: values above INT_MAX wrap to negatives.
AsInt(u) == IF u.hi = 0 THEN u.lo ELSE (u.lo - INT_MAX) - 1

\* u > 0 for an unsigned int.
IsPositive(u) == u.hi = 1 \/ u.lo > 0

(***************************************************************************)
(* Time: gettimeofday and the timeval difference.                          *)
(***************************************************************************)
\* The timeval gettimeofday stores for the clock value t (microseconds).
TimeVal(t) ==
    [tv_sec |-> t \div MICROSECONDS_PER_SECOND,
     tv_usec |-> t % MICROSECONDS_PER_SECOND]

\* operator-(timeval, timeval)
TimevalMinus(firstOperand, secondOperand) ==
    LET sec == firstOperand.tv_sec - secondOperand.tv_sec
        usec == firstOperand.tv_usec - secondOperand.tv_usec
    IN  IF Abs(usec) > MICROSECONDS_PER_SECOND
        THEN LET num_of_seconds == CDiv(usec, MICROSECONDS_PER_SECOND)
             IN  [tv_sec |-> sec + num_of_seconds,
                  tv_usec |-> usec - MICROSECONDS_PER_SECOND * num_of_seconds]
        ELSE [tv_sec |-> sec, tv_usec |-> usec]

\* elapsed_ms of ReadByte and ReadLine.
ElapsedMs(entry, curr) ==
    LET elapsed_time == TimevalMinus(curr, entry)
    IN  elapsed_time.tv_sec * MILLISECONDS_PER_SEC
          + CDiv(elapsed_time.tv_usec, MICROSECONDS_PER_MS)

\* The test that makes ReadByte and ReadLine throw ReadTimeout.
TimedOut(timeout, entry, curr) ==
    IsPositive(timeout) /\ ElapsedMs(entry, curr) > AsInt(timeout)

(***************************************************************************)
(* Operating system helpers.                                               *)
(***************************************************************************)
\* open() returns the lowest descriptor number not in use.
NewFd == CHOOSE n \in 3..(3 + Cardinality(DOMAIN osFds)) :
            /\ n \notin DOMAIN osFds
            /\ \A m \in 3..(n - 1) : m \in DOMAIN osFds

FdValid == mFileDescriptor \in DOMAIN osFds

\* Some open descriptor of the device has SIGIO delivery switched on.
AsyncOn == \E d \in DOMAIN osFds : osFds[d].async /\ osFds[d].owner

CanFail == fails < MaxFail

\* The application thread runs: in a process with one thread the signal
\* handler interrupts it and returns before it resumes.
AppCanRun == concurrent \/ hpc = "h_idle"

\* The positions of ReadByte at which it is waiting for data, its deadline
\* (entry_time) taken and its outcome not yet decided.
RBWaiting == {"rb_time", "rb_sleep", "rb_lock2", "rb_size2"}

EntryMicros == entry_time.tv_sec * MICROSECONDS_PER_SECOND + entry_time.tv_usec

\* Fewer than msTimeout milliseconds have passed since ReadByte's entry time.
BeforeDeadline ==
    msTimeout.hi = 1 \/ now - EntryMicros < msTimeout.lo * MICROSECONDS_PER_MS

\* A byte appended to mInputBuffer now arrives before the deadline of a
\* ReadByte that is waiting.
NotePush == pushedInTime \/ (pc \in RBWaiting /\ BeforeDeadline)

(***************************************************************************)
(* HandlePosixSignal: the notification context.                            *)
(***************************************************************************)
\* The dispatcher calls the handler for a pending SIGIO.  The handler's
\* locals (num_of_bytes_available, i) are 0 while it is not running.
Dispatch ==
    /\ hpc = "h_idle" /\ sigPending /\ attached > 0
    /\ sigPending' = FALSE
    /\ hpc' = "h_ioctl"
    /\ UNCHANGED <<objVars, devVars, attached, fails, now, sent, ticks,
                   concurrent, appVars, num_of_bytes_available, hi, histVars>>
    /\ UNCHANGED bufVars

\* ioctl(FIONREAD): the number of bytes waiting; return on error.
HIoctl ==
    /\ hpc = "h_ioctl"
    /\ IF FdValid
       THEN /\ num_of_bytes_available' = Len(devBuf)
            /\ hpc' = "h_trylock"
       ELSE /\ num_of_bytes_available' = 0
            /\ hpc' = "h_idle"
    /\ UNCHANGED <<objVars, osVars, appVars, hi, histVars>>
    /\ UNCHANGED bufVars

\* A handler that starts to read the device as soon as it has the lock.
HTryLockThenRead ==
    /\ hpc = "h_trylock"
    /\ IF mQueueMutex = "free"
       THEN mQueueMutex' = "sig" /\ hpc' = "h_read"
       ELSE mQueueMutex' = mQueueMutex /\ hpc' = "h_shadow"
    /\ hi' = 0
    /\ UNCHANGED <<lifeVars, mInputBuffer, mShadowInputBuffer,
                   mIsQueueDataAvailable, osVars, appVars,
                   num_of_bytes_available, histVars>>
    /\ UNCHANGED bufVars

\* A handler that takes the lock with pthread_mutex_lock.
HTryLockWaits ==
    /\ hpc = "h_trylock"
    /\ mQueueMutex = "free"
    /\ mQueueMutex' = "sig" /\ hpc' = "h_drain"
    /\ hi' = 0
    /\ UNCHANGED <<lifeVars, mInputBuffer, mShadowInputBuffer,
                   mIsQueueDataAvailable, osVars, appVars,
                   num_of_bytes_available, histVars>>
    /\ UNCHANGED bufVars

\* pthread_mutex_trylock
HTryLock ==
    /\ hpc = "h_trylock"
    /\ IF mQueueMutex = "free"
       THEN mQueueMutex' = "sig" /\ hpc' = "h_drain"
       ELSE mQueueMutex' = mQueueMutex /\ hpc' = "h_shadow"
    /\ hi' = 0
    /\ UNCHANGED <<lifeVars, mInputBuffer, mShadowInputBuffer,
                   mIsQueueDataAvailable, osVars, appVars,
                   num_of_bytes_available, histVars>>
    /\ UNCHANGED bufVars

\* A handler that leaves the shadow queue alone and goes straight on to
\* read the device.
HDrainSkipped ==
    /\ hpc = "h_drain"
    /\ hpc' = "h_read"
    /\ UNCHANGED <<objVars, osVars, appVars, num_of_bytes_available, hi,
                   histVars>>
    /\ UNCHANGED bufVars

\* One turn of the loop that moves the shadow queue into the input queue.
HDrain ==
    /\ hpc = "h_drain"
    /\ IF mShadowInputBuffer # <<>>
       THEN /\ mInputBuffer' = Append(mInputBuffer, Head(mShadowInputBuffer))
            /\ mShadowInputBuffer' = Tail(mShadowInputBuffer)
            /\ pushedInTime' = NotePush
            /\ hpc' = "h_drain"
       ELSE /\ UNCHANGED <<mInputBuffer, mShadowInputBuffer, pushedInTime>>
            /\ hpc' = "h_read"
    /\ UNCHANGED <<lifeVars, mQueueMutex, mIsQueueDataAvailable, osVars,
                   appVars, num_of_bytes_available, hi, streamHist, lifeHist,
                   callHist>>
    /\ UNCHANGED bufVars

\* read(mFileDescriptor, &next_byte, 1) > 0
ReadGivesByte == FdValid /\ devBuf # <<>>

\* What makes a read of the handler return no byte: a closed descriptor, an
\* empty driver buffer, or an error of the device.
ReadGivesNothing ==
    \/ ~FdValid /\ fails' = fails
    \/ FdValid /\ devBuf = <<>> /\ fails' = fails
    \/ FdValid /\ devBuf # <<>> /\ CanFail /\ fails' = fails + 1

\* One turn of the loop that reads the available bytes into the input
\* queue, the lock held.  A read that returns nothing unlocks and leaves
\* the loop.
HRead ==
    /\ hpc = "h_read"
    /\ \/ /\ hi < num_of_bytes_available
          /\ ReadGivesByte
          /\ mInputBuffer' = Append(mInputBuffer, Head(devBuf))
          /\ devBuf' = Tail(devBuf)
          /\ hread' = Append(hread, Head(devBuf))
          /\ pushedInTime' = NotePush
          /\ hi' = hi + 1
          /\ hpc' = "h_read"
          /\ UNCHANGED <<mQueueMutex, fails>>
       \/ /\ hi < num_of_bytes_available
          /\ ReadGivesNothing
          /\ mQueueMutex' = "free"
          /\ hpc' = "h_flag"
          /\ UNCHANGED <<mInputBuffer, devBuf, hread, pushedInTime, hi>>
       \/ /\ hi >= num_of_bytes_available
          /\ hpc' = "h_flag"
          /\ UNCHANGED <<mInputBuffer, devBuf, hread, pushedInTime, hi,
                         mQueueMutex, fails>>
    /\ UNCHANGED <<lifeVars, mShadowInputBuffer, mIsQueueDataAvailable, osFds,
                   devAttr, modemLines, attached, envVars, appVars,
                   num_of_bytes_available, returned, shadowed, lifeHist,
                   callHist>>
    /\ UNCHANGED bufVars

\* The value the handler stores in mIsQueueDataAvailable.
HandlerFlagValue == TRUE

\* mIsQueueDataAvailable = true
HFlag ==
    /\ hpc = "h_flag"
    /\ mIsQueueDataAvailable' = HandlerFlagValue
    /\ hpc' = "h_unlock"
    /\ UNCHANGED <<lifeVars, mInputBuffer, mShadowInputBuffer, mQueueMutex,
                   osVars, appVars, num_of_bytes_available, hi, histVars>>
    /\ UNCHANGED bufVars

\* pthread_mutex_unlock, and return.  Unlocking a default mutex that is not
\* locked leaves it unlocked.
HUnlock ==
    /\ hpc = "h_unlock"
    /\ mQueueMutex' = "free"
    /\ hpc' = "h_idle"
    /\ num_of_bytes_available' = 0 /\ hi' = 0
    /\ UNCHANGED <<lifeVars, mInputBuffer, mShadowInputBuffer,
                   mIsQueueDataAvailable, osVars, appVars, histVars>>
    /\ UNCHANGED bufVars

\* One turn of the loop that reads the available bytes into the shadow
\* queue when the lock was not acquired.
HShadow ==
    /\ hpc = "h_shadow"
    /\ \/ /\ hi < num_of_bytes_available
          /\ ReadGivesByte
          /\ mShadowInputBuffer' = Append(mShadowInputBuffer, Head(devBuf))
          /\ devBuf' = Tail(devBuf)
          /\ hread' = Append(hread, Head(devBuf))
          /\ shadowed' = shadowed \cup {Head(devBuf)}
          /\ hi' = hi + 1
          /\ hpc' = "h_shadow"
          /\ UNCHANGED <<fails, num_of_bytes_available>>
       \/ /\ hi < num_of_bytes_available
          /\ ReadGivesNothing
          /\ hpc' = "h_idle"
          /\ num_of_bytes_available' = 0 /\ hi' = 0
          /\ UNCHANGED <<mShadowInputBuffer, devBuf, hread, shadowed>>
       \/ /\ hi >= num_of_bytes_available
          /\ hpc' = "h_idle"
          /\ num_of_bytes_available' = 0 /\ hi' = 0
          /\ UNCHANGED <<mShadowInputBuffer, devBuf, hread, shadowed, fails>>
    /\ UNCHANGED <<lifeVars, mInputBuffer, mQueueMutex, mIsQueueDataAvailable,
                   osFds, devAttr, modemLines, attached, envVars, appVars,
                   returned, lifeHist, callHist, pushedInTime>>
    /\ UNCHANGED bufVars

Handler == Dispatch \/ HIoctl \/ HTryLock \/ HDrain \/ HRead \/ HFlag
             \/ HUnlock \/ HShadow

(***************************************************************************)
(* The environment.                                                        *)
(***************************************************************************)
\* The peer sends the next byte: it is queued by the driver, which raises
\* SIGIO when a descriptor asks for it.
Arrive ==
    /\ sent < MaxBytes
    /\ DOMAIN osFds # {}
    /\ sent' = sent + 1
    /\ devBuf' = Append(devBuf, sent + 1)
    /\ sigPending' = (sigPending \/ AsyncOn)
    /\ UNCHANGED <<objVars, osFds, devAttr, modemLines, attached, fails, now, ticks,
                   concurrent, appVars, sigVars, histVars>>
    /\ UNCHANGED bufVars

\* A SIGIO that announces no new input (the line became writable, or the
\* signal was sent by another source).
Signal ==
    /\ ~sigPending
    /\ sigPending' = TRUE
    /\ UNCHANGED <<objVars, devVars, attached, fails, now, sent, ticks,
                   concurrent, appVars, sigVars, histVars>>
    /\ UNCHANGED bufVars

TickDeltas == {500, 1000}

\* Time passes.
Tick ==
    /\ ticks < MaxTicks
    /\ \E d \in TickDeltas : now' = now + d
    /\ ticks' = ticks + 1
    /\ UNCHANGED <<objVars, devVars, attached, fails, sigPending, sent,
                   concurrent, appVars, sigVars, histVars>>
    /\ UNCHANGED bufVars

(***************************************************************************)
(* The application thread: calls begin at "idle" and end at "ret", where   *)
(* err holds the outcome ("ok" or the exception thrown).                   *)
(***************************************************************************)
NoTime == [tv_sec |-> 0, tv_usec |-> 0]
NoTimeout == UInt(0, 0)

\* The caller takes the outcome of the call and goes on.
Return ==
    /\ pc = "ret" /\ AppCanRun
    /\ pc' = "idle" /\ call' = "none" /\ err' = "none"
    /\ msTimeout' = NoTimeout /\ numOfBytes' = 0 /\ lineTerminator' = 0
    /\ argValue' = "none"
    /\ queueSize' = 0 /\ entry_time' = NoTime /\ charBuffer' = 0
    /\ dataBuffer' = <<>> /\ rl_entry_time' = NoTime /\ result' = 0
    /\ ioInCall' = FALSE /\ popInCall' = FALSE /\ closedAtCall' = FALSE
    /\ accepted' = 0
    /\ pushedInTime' = FALSE
    /\ UNCHANGED <<objVars, osVars, sigVars, streamHist, lifeHist>>
    /\ UNCHANGED bufVars

\* What a call records when it begins.
Begin(op) ==
    /\ pc = "idle" /\ AppCanRun
    /\ call' = op
    /\ closedAtCall' = ~mIsOpen
    /\ accepted' = 0

\* An exception leaves the call (and every caller up to the application).
Throw(e) == pc' = "ret" /\ err' = e

(***************************************************************************)
(* SerialPort::Implementation::Open                                        *)
(***************************************************************************)
\* The file status flags of a descriptor opened O_RDWR | O_NOCTTY | O_NONBLOCK.
OpenFlags == [nonblock |-> TRUE, async |-> FALSE, owner |-> FALSE]

\* The IsOpen() test and open().
OpenCall ==
    /\ Begin("Open")
    /\ popInCall' = FALSE
    /\ IF mIsOpen
       THEN /\ Throw("AlreadyOpen")
            /\ ioInCall' = FALSE
            /\ UNCHANGED <<mFileDescriptor, osFds, fails>>
       ELSE /\ ioInCall' = TRUE
            /\ \/ /\ CanFail /\ fails' = fails + 1
                  /\ mFileDescriptor' = -1
                  /\ Throw("OpenFailed")
                  /\ UNCHANGED osFds
               \/ /\ mFileDescriptor' = NewFd
                  /\ osFds' = [d \in DOMAIN osFds \cup {NewFd} |->
                                 IF d = NewFd THEN OpenFlags ELSE osFds[d]]
                  /\ pc' = "open_attach" /\ err' = "none"
                  /\ fails' = fails
    /\ UNCHANGED <<mIsOpen, mOldPortSettings, queueVars, devAttr, modemLines, devBuf,
                   attached, envVars, argVars, locVars, sigVars, streamHist,
                   lifeHist, pushedInTime>>
    /\ handledAtOpen' = Len(hread)
    /\ UNCHANGED <<sbVars, thrVars>>

\* PosixSignalDispatcher keeps one entry for each AttachHandler call and
\* DetachHandler removes one entry, if there is one.
AttachHandler(n) == n + 1
DetachHandler(n) == IF n > 0 THEN n - 1 ELSE 0

\* signal_dispatcher.AttachHandler(SIGIO, *this)
OpenAttach ==
    /\ pc = "open_attach" /\ AppCanRun
    /\ attached' = AttachHandler(attached)
    /\ pc' = "open_setown"
    /\ UNCHANGED <<objVars, devVars, fails, envVars, call, err, argVars,
                   locVars, sigVars, histVars>>
    /\ UNCHANGED bufVars

\* A step of Open that ends it with OpenFailed when the OS call fails.
OpenStepFails ==
    /\ CanFail /\ fails' = fails + 1
    /\ Throw("OpenFailed")

\* fcntl(F_SETOWN, getpid())
OpenSetOwn ==
    /\ pc = "open_setown" /\ AppCanRun
    /\ \/ OpenStepFails /\ UNCHANGED osFds
       \/ /\ osFds' = [osFds EXCEPT ![mFileDescriptor].owner = TRUE]
          /\ pc' = "open_setfl"
          /\ UNCHANGED <<err, fails>>
    /\ UNCHANGED <<objVars, devAttr, modemLines, devBuf, attached, envVars, call, argVars,
                   locVars, sigVars, histVars>>
    /\ UNCHANGED bufVars

\* The file status flags after fcntl(F_SETFL, FASYNC): the flag word is
\* replaced, so O_NONBLOCK is cleared.
SetFlAsync(f) == [f EXCEPT !.async = TRUE, !.nonblock = FALSE]

\* fcntl(F_SETFL, FASYNC)
OpenSetFl ==
    /\ pc = "open_setfl" /\ AppCanRun
    /\ \/ OpenStepFails /\ UNCHANGED osFds
       \/ /\ osFds' = [osFds EXCEPT ![mFileDescriptor] = SetFlAsync(@)]
          /\ pc' = "open_getattr"
          /\ UNCHANGED <<err, fails>>
    /\ UNCHANGED <<objVars, devAttr, modemLines, devBuf, attached, envVars, call, argVars,
                   locVars, sigVars, histVars>>
    /\ UNCHANGED bufVars

\* What tcgetattr stores in mOldPortSettings.
SavedSettings == devAttr

\* tcgetattr(mFileDescriptor, &mOldPortSettings)
OpenGetAttr ==
    /\ pc = "open_getattr" /\ AppCanRun
    /\ \/ OpenStepFails /\ UNCHANGED <<mOldPortSettings, snapAtOpen>>
       \/ /\ mOldPortSettings' = SavedSettings
          /\ snapAtOpen' = devAttr
          /\ pc' = "open_flush"
          /\ UNCHANGED <<err, fails>>
    /\ UNCHANGED <<mIsOpen, mFileDescriptor, queueVars, devVars, attached,
                   envVars, call, argVars, locVars, sigVars, streamHist,
                   lastOk, restoreOk, configured, callHist, pushedInTime>>
    /\ UNCHANGED bufVars

\* tcflush(mFileDescriptor, TCIFLUSH): the driver's input buffer is emptied.
OpenFlush ==
    /\ pc = "open_flush" /\ AppCanRun
    /\ \/ OpenStepFails /\ UNCHANGED devBuf
       \/ /\ devBuf' = <<>>
          /\ pc' = "open_setattr"
          /\ UNCHANGED <<err, fails>>
    /\ UNCHANGED <<objVars, osFds, devAttr, modemLines, attached, envVars, call, argVars,
                   locVars, sigVars, histVars>>
    /\ UNCHANGED bufVars

\* An Open that marks the port open before it knows that tcsetattr worked.
OpenSetAttrMarksOpen ==
    /\ pc = "open_setattr" /\ AppCanRun
    /\ mIsOpen' = TRUE
    /\ \/ OpenStepFails /\ UNCHANGED <<devAttr, configured>>
       \/ /\ devAttr' = OpenPortSettings
          /\ configured' = 0
          /\ pc' = "open_flag"
          /\ UNCHANGED <<err, fails>>
    /\ UNCHANGED <<mFileDescriptor, mOldPortSettings, queueVars, osFds, devBuf,
                   modemLines, attached, envVars, call, argVars, locVars,
                   sigVars, streamHist, lastOk, snapAtOpen, restoreOk,
                   callHist, pushedInTime>>
    /\ UNCHANGED bufVars

\* tcsetattr(mFileDescriptor, TCSANOW, &port_settings); mIsOpen = true
OpenSetAttr ==
    /\ pc = "open_setattr" /\ AppCanRun
    /\ \/ OpenStepFails /\ UNCHANGED <<devAttr, mIsOpen, configured>>
       \/ /\ devAttr' = OpenPortSettings
          /\ mIsOpen' = TRUE
          /\ configured' = 0
          /\ pc' = "open_flag"
          /\ UNCHANGED <<err, fails>>
    /\ UNCHANGED <<mFileDescriptor, mOldPortSettings, queueVars, osFds, devBuf,
                   modemLines, attached, envVars, call, argVars, locVars,
                   sigVars, streamHist, lastOk, snapAtOpen, restoreOk,
                   callHist, pushedInTime>>
    /\ UNCHANGED bufVars

\* mIsQueueDataAvailable = false; return
OpenResetFlag ==
    /\ pc = "open_flag" /\ AppCanRun
    /\ mIsQueueDataAvailable' = FALSE
    /\ pc' = "ret" /\ err' = "ok"
    /\ lastOk' = "Open"
    /\ UNCHANGED <<lifeVars, mInputBuffer, mShadowInputBuffer, mQueueMutex,
                   osVars, call, argVars, locVars, sigVars, streamHist,
                   snapAtOpen, restoreOk, configured, callHist, pushedInTime>>
    /\ UNCHANGED bufVars

(***************************************************************************)
(* SerialPort::Implementation::Close                                       *)
(***************************************************************************)
\* A Close that resets the descriptor before it tests IsOpen().
CloseCallForgetsDescriptor ==
    /\ Begin("Close")
    /\ ioInCall' = FALSE /\ popInCall' = FALSE
    /\ IF ~mIsOpen
       THEN Throw("NotOpen") /\ mFileDescriptor' = -1 /\ UNCHANGED attached
       ELSE /\ attached' = DetachHandler(attached)
            /\ pc' = "close_restore" /\ err' = "none"
            /\ UNCHANGED mFileDescriptor
    /\ UNCHANGED <<mIsOpen, mOldPortSettings, queueVars, devVars, fails,
                   envVars, argVars, locVars, sigVars, streamHist, lifeHist,
                   pushedInTime>>
    /\ UNCHANGED bufVars

\* The IsOpen() test and signal_dispatcher.DetachHandler(SIGIO, *this).
CloseCall ==
    /\ Begin("Close")
    /\ ioInCall' = FALSE /\ popInCall' = FALSE
    /\ IF ~mIsOpen
       THEN Throw("NotOpen") /\ UNCHANGED attached
       ELSE /\ attached' = DetachHandler(attached)
            /\ pc' = "close_restore" /\ err' = "none"
    /\ UNCHANGED <<objVars, devVars, fails, envVars, argVars, locVars, sigVars,
                   streamHist, lifeHist, pushedInTime>>
    /\ UNCHANGED bufVars

\* A Close that writes the settings of Open back instead of the saved ones.
RestoredSettingsOfOpen == OpenPortSettings

\* The settings Close writes back to the port.
RestoredSettings == mOldPortSettings

\* tcsetattr(mFileDescriptor, TCSANOW, &mOldPortSettings), its result ignored.
CloseRestore ==
    /\ pc = "close_restore" /\ AppCanRun
    /\ \/ /\ CanFail /\ fails' = fails + 1
          /\ restoreOk' = FALSE
          /\ UNCHANGED devAttr
       \/ /\ devAttr' = RestoredSettings
          /\ restoreOk' = TRUE
          /\ fails' = fails
    /\ ioInCall' = TRUE
    /\ pc' = "close_fd"
    /\ UNCHANGED <<objVars, osFds, devBuf, modemLines, attached, envVars, call,
                   err, argVars, locVars, sigVars, streamHist, lastOk, snapAtOpen,
                   configured, popInCall, closedAtCall, accepted, pushedInTime>>
    /\ UNCHANGED bufVars

\* close(mFileDescriptor); mIsOpen = false; return
CloseFd ==
    /\ pc = "close_fd" /\ AppCanRun
    /\ osFds' = [d \in DOMAIN osFds \ {mFileDescriptor} |-> osFds[d]]
    /\ mIsOpen' = FALSE
    /\ lastOk' = "Close"
    /\ pc' = "ret" /\ err' = "ok"
    /\ UNCHANGED <<mFileDescriptor, mOldPortSettings, queueVars, devAttr, modemLines,
                   devBuf, attached, fails, envVars, call, argVars, locVars,
                   sigVars, streamHist, snapAtOpen, restoreOk, configured,
                   callHist, pushedInTime>>
    /\ UNCHANGED bufVars

(***************************************************************************)
(* SerialPort::Implementation::ReadByte                                    *)
(*                                                                         *)
(* ReadByte is called by the application (call = "ReadByte") and by Read   *)
(* and ReadLine, to which it returns.                                      *)
(***************************************************************************)
\* pthread_mutex_lock: the caller waits until the mutex is free.
AppLock(at, next) ==
    /\ pc = at /\ AppCanRun
    /\ mQueueMutex = "free"
    /\ mQueueMutex' = "app"
    /\ pc' = next
    /\ UNCHANGED <<lifeVars, mInputBuffer, mShadowInputBuffer,
                   mIsQueueDataAvailable, osVars, call, err, argVars, locVars,
                   sigVars, histVars>>
    /\ UNCHANGED bufVars

\* ReadByte(charBuffer, msTimeout) called by the application.
ReadByteCall(timeout) ==
    /\ Begin("ReadByte")
    /\ msTimeout' = timeout
    /\ pc' = "rb_lock1" /\ err' = "none"
    /\ ioInCall' = FALSE /\ popInCall' = FALSE
    /\ UNCHANGED <<objVars, osVars, numOfBytes, lineTerminator, argValue,
                   locVars, sigVars, streamHist, lifeHist, pushedInTime>>
    /\ UNCHANGED bufVars

RBLock1 == AppLock("rb_lock1", "rb_size1")

\* queueSize = mInputBuffer.size(); pthread_mutex_unlock
RBSize1 ==
    /\ pc = "rb_size1" /\ AppCanRun
    /\ queueSize' = Len(mInputBuffer)
    /\ mQueueMutex' = "free"
    /\ pc' = "rb_check"
    /\ UNCHANGED <<lifeVars, mInputBuffer, mShadowInputBuffer,
                   mIsQueueDataAvailable, osVars, call, err, argVars,
                   entry_time, charBuffer, dataBuffer, rl_entry_time, result,
                   sigVars, histVars>>
    /\ UNCHANGED bufVars

\* Where the loop "while (queueSize == 0)" goes for a queue size n.
RBLoop(n) == IF n = 0 THEN "rb_time" ELSE "rb_lock3"

\* The IsOpen() test, gettimeofday(&entry_time) and the first loop test.
RBCheck ==
    /\ pc = "rb_check" /\ AppCanRun
    /\ IF ~mIsOpen
       THEN Throw("NotOpen") /\ UNCHANGED <<entry_time, pushedInTime>>
       ELSE /\ entry_time' = TimeVal(now)
            /\ pushedInTime' = FALSE
            /\ pc' = RBLoop(queueSize) /\ err' = "none"
    /\ UNCHANGED <<objVars, osVars, call, argVars, queueSize, charBuffer,
                   dataBuffer, rl_entry_time, result, sigVars, streamHist,
                   lifeHist, callHist>>
    /\ UNCHANGED bufVars

\* gettimeofday(&curr_time) and the deadline test.
RBTime ==
    /\ pc = "rb_time" /\ AppCanRun
    /\ IF TimedOut(msTimeout, entry_time, TimeVal(now))
       THEN Throw("ReadTimeout")
       ELSE pc' = "rb_sleep" /\ err' = "none"
    /\ UNCHANGED <<objVars, osVars, call, argVars, locVars, sigVars, histVars>>
    /\ UNCHANGED bufVars

\* usleep(MICROSECONDS_PER_MS): the time it takes is the environment's (a
\* signal ends the sleep early).
RBSleep ==
    /\ pc = "rb_sleep" /\ AppCanRun
    /\ pc' = "rb_lock2"
    /\ UNCHANGED <<objVars, osVars, call, err, argVars, locVars, sigVars,
                   histVars>>
    /\ UNCHANGED bufVars

RBLock2 == AppLock("rb_lock2", "rb_size2")

\* queueSize = mInputBuffer.size(); pthread_mutex_unlock; the loop test
RBSize2 ==
    /\ pc = "rb_size2" /\ AppCanRun
    /\ queueSize' = Len(mInputBuffer)
    /\ mQueueMutex' = "free"
    /\ pc' = RBLoop(Len(mInputBuffer))
    /\ UNCHANGED <<lifeVars, mInputBuffer, mShadowInputBuffer,
                   mIsQueueDataAvailable, osVars, call, err, argVars,
                   entry_time, charBuffer, dataBuffer, rl_entry_time, result,
                   sigVars, histVars>>
    /\ UNCHANGED bufVars

RBLock3 == AppLock("rb_lock3", "rb_front")

\* What front() yields: the first byte of the queue; of an empty queue, the
\* behaviour is undefined and any byte may come out.
FrontOf(queue) == IF queue # <<>> THEN {Head(queue)} ELSE 0..MaxBytes

\* charBuffer = mInputBuffer.front()
RBFront ==
    /\ pc = "rb_front" /\ AppCanRun
    /\ charBuffer' \in FrontOf(mInputBuffer)
    /\ pc' = "rb_pop"
    /\ UNCHANGED <<objVars, osVars, call, err, argVars, queueSize, entry_time,
                   dataBuffer, rl_entry_time, result, sigVars, histVars>>
    /\ UNCHANGED bufVars

\* mInputBuffer.pop()
RBPop ==
    /\ pc = "rb_pop" /\ AppCanRun
    /\ mInputBuffer' = IF mInputBuffer # <<>> THEN Tail(mInputBuffer) ELSE <<>>
    /\ popInCall' = TRUE
    /\ pc' = "rb_flag"
    /\ UNCHANGED <<lifeVars, mShadowInputBuffer, mQueueMutex,
                   mIsQueueDataAvailable, osVars, call, err, argVars, locVars,
                   sigVars, streamHist, lifeHist, ioInCall, closedAtCall, accepted,
                   pushedInTime>>
    /\ UNCHANGED bufVars

\* The flag after a pop: cleared when the queue has become empty.
FlagAfterPop == IF Len(mInputBuffer) = 0 THEN FALSE ELSE mIsQueueDataAvailable

\* if (mInputBuffer.size() == 0) mIsQueueDataAvailable = false
RBFlag ==
    /\ pc = "rb_flag" /\ AppCanRun
    /\ mIsQueueDataAvailable' = FlagAfterPop
    /\ pc' = "rb_unlock3"
    /\ UNCHANGED <<lifeVars, mInputBuffer, mShadowInputBuffer, mQueueMutex,
                   osVars, call, err, argVars, locVars, sigVars, histVars>>
    /\ UNCHANGED bufVars

\* A ReadLine that takes the terminator from the queue and does not store
\* it.
RBUnlock3DropsTerminator ==
    /\ pc = "rb_unlock3" /\ AppCanRun
    /\ mQueueMutex' = "free"
    /\ returned' = Append(returned, charBuffer)
    /\ \/ /\ call = "ReadByte"
          /\ pc' = "ret" /\ err' = "ok" /\ result' = 1
          /\ UNCHANGED dataBuffer
       \/ /\ call = "Read"
          /\ dataBuffer' = Append(dataBuffer, charBuffer)
          /\ pc' = "rd_loop"
          /\ UNCHANGED <<err, result>>
       \/ /\ call = "ReadLine"
          /\ IF charBuffer # lineTerminator
             THEN /\ dataBuffer' = Append(dataBuffer, charBuffer)
                  /\ pc' = "rl_time" /\ UNCHANGED <<err, result>>
             ELSE /\ dataBuffer' = dataBuffer
                  /\ pc' = "ret" /\ err' = "ok" /\ result' = Len(dataBuffer)
    /\ UNCHANGED <<lifeVars, mInputBuffer, mShadowInputBuffer,
                   mIsQueueDataAvailable, osVars, call, argVars, queueSize,
                   entry_time, charBuffer, rl_entry_time, sigVars, hread,
                   shadowed, lifeHist, callHist, pushedInTime>>
    /\ UNCHANGED bufVars

\* pthread_mutex_unlock; return 1.  The caller (the application, Read or
\* ReadLine) takes the byte.
RBUnlock3 ==
    /\ pc = "rb_unlock3" /\ AppCanRun
    /\ mQueueMutex' = "free"
    /\ returned' = Append(returned, charBuffer)
    /\ \/ /\ call = "ReadByte"
          /\ pc' = "ret" /\ err' = "ok" /\ result' = 1
          /\ UNCHANGED dataBuffer
       \/ /\ call = "Read"
          /\ dataBuffer' = Append(dataBuffer, charBuffer)
          /\ pc' = "rd_loop"
          /\ UNCHANGED <<err, result>>
       \/ /\ call = "ReadLine"
          /\ dataBuffer' = Append(dataBuffer, charBuffer)
          /\ IF charBuffer # lineTerminator
             THEN pc' = "rl_time" /\ UNCHANGED <<err, result>>
             ELSE pc' = "ret" /\ err' = "ok" /\ result' = Len(dataBuffer) + 1
    /\ UNCHANGED <<lifeVars, mInputBuffer, mShadowInputBuffer,
                   mIsQueueDataAvailable, osVars, call, argVars, queueSize,
                   entry_time, charBuffer, rl_entry_time, sigVars, hread,
                   shadowed, lifeHist, callHist, pushedInTime>>
    /\ UNCHANGED bufVars

ReadByteSteps == RBLock1 \/ RBSize1 \/ RBCheck \/ RBTime \/ RBSleep \/ RBLock2
                   \/ RBSize2 \/ RBLock3 \/ RBFront \/ RBPop \/ RBFlag
                   \/ RBUnlock3

(***************************************************************************)
(* ReadByte(charBuffer, 0) called by a second application thread.  With    *)
(* msTimeout = 0 the deadline test of the loop never throws.               *)
(***************************************************************************)
OtherFrame ==
    UNCHANGED <<lifeVars, mShadowInputBuffer, osVars, appVars, sigVars,
                histVars, sbVars, handledAtOpen>>

\* pthread_mutex_lock by the second thread.
OtherLock(at, next) ==
    /\ pc2 = at
    /\ mQueueMutex = "free"
    /\ mQueueMutex' = "app2"
    /\ pc2' = next
    /\ UNCHANGED <<mInputBuffer, mIsQueueDataAvailable, queueSize2,
                   charBuffer2, returned2>>
    /\ OtherFrame

\* The statements of ReadByte outside its last critical section.
OtherWait ==
    /\ \/ /\ pc2 = "idle" /\ mIsOpen
          /\ pc2' = "rb_lock1"
          /\ UNCHANGED <<mQueueMutex, queueSize2>>
       \/ /\ pc2 \in {"rb_size1", "rb_size2"}
          /\ queueSize2' = Len(mInputBuffer)
          /\ mQueueMutex' = "free"
          /\ pc2' = IF pc2 = "rb_size1" THEN "rb_check"
                    ELSE RBLoop(Len(mInputBuffer))
       \/ /\ pc2 = "rb_check"
          /\ pc2' = IF ~mIsOpen THEN "idle" ELSE RBLoop(queueSize2)
          /\ UNCHANGED <<mQueueMutex, queueSize2>>
       \/ /\ pc2 = "rb_time"
          /\ pc2' = "rb_sleep"
          /\ UNCHANGED <<mQueueMutex, queueSize2>>
       \/ /\ pc2 = "rb_sleep"
          /\ pc2' = "rb_lock2"
          /\ UNCHANGED <<mQueueMutex, queueSize2>>
    /\ UNCHANGED <<mInputBuffer, mIsQueueDataAvailable, charBuffer2,
                   returned2>>
    /\ OtherFrame

\* charBuffer = mInputBuffer.front(); mInputBuffer.pop(); the flag;
\* pthread_mutex_unlock; return 1.
OtherTake ==
    /\ \/ /\ pc2 = "rb_front"
          /\ charBuffer2' \in FrontOf(mInputBuffer)
          /\ pc2' = "rb_pop"
          /\ UNCHANGED <<mInputBuffer, mIsQueueDataAvailable, mQueueMutex,
                         returned2>>
       \/ /\ pc2 = "rb_pop"
          /\ mInputBuffer' = IF mInputBuffer # <<>> THEN Tail(mInputBuffer)
                             ELSE <<>>
          /\ pc2' = "rb_flag"
          /\ UNCHANGED <<mIsQueueDataAvailable, mQueueMutex, charBuffer2,
                         returned2>>
       \/ /\ pc2 = "rb_flag"
          /\ mIsQueueDataAvailable' = FlagAfterPop
          /\ pc2' = "rb_unlock3"
          /\ UNCHANGED <<mInputBuffer, mQueueMutex, charBuffer2, returned2>>
       \/ /\ pc2 = "rb_unlock3"
          /\ mQueueMutex' = "free"
          /\ returned2' = Append(returned2, charBuffer2)
          /\ pc2' = "idle"
          /\ UNCHANGED <<mInputBuffer, mIsQueueDataAvailable, charBuffer2>>
    /\ UNCHANGED queueSize2
    /\ OtherFrame

OtherReadByte ==
    \/ OtherLock("rb_lock1", "rb_size1") \/ OtherLock("rb_lock2", "rb_size2")
    \/ OtherLock("rb_lock3", "rb_front")
    \/ OtherWait \/ OtherTake

(***************************************************************************)
(* SerialPort::Implementation::Read                                        *)
(***************************************************************************)
\* The IsOpen() test; dataBuffer.resize(0)
ReadCall(n, timeout) ==
    /\ Begin("Read")
    /\ numOfBytes' = n /\ msTimeout' = timeout
    /\ ioInCall' = FALSE /\ popInCall' = FALSE
    /\ IF ~mIsOpen
       THEN Throw("NotOpen")
       ELSE pc' = "rd_loop" /\ err' = "none"
    /\ UNCHANGED <<objVars, osVars, lineTerminator, argValue, locVars, sigVars,
                   streamHist, lifeHist, pushedInTime>>
    /\ UNCHANGED bufVars

\* A Read whose counting loop ends one byte early.
ReadLoopStopsEarly ==
    /\ pc = "rd_loop" /\ AppCanRun
    /\ IF numOfBytes = 0
       THEN IF ~mIsOpen
            THEN Throw("NotOpen") /\ UNCHANGED result
            ELSE IF mIsQueueDataAvailable
                 THEN pc' = "rb_lock1" /\ UNCHANGED <<err, result>>
                 ELSE pc' = "ret" /\ err' = "ok" /\ result' = Len(dataBuffer)
       ELSE IF Len(dataBuffer) + 1 < numOfBytes
            THEN pc' = "rb_lock1" /\ UNCHANGED <<err, result>>
            ELSE pc' = "ret" /\ err' = "ok" /\ result' = Len(dataBuffer)
    /\ UNCHANGED <<objVars, osVars, call, argVars, queueSize, entry_time,
                   charBuffer, dataBuffer, rl_entry_time, sigVars, histVars>>
    /\ UNCHANGED bufVars

\* The loop test of Read: while (IsDataAvailable()) when numOfBytes is 0,
\* for (i < numOfBytes) otherwise; then ReadByte, or return dataBuffer.size().
ReadLoop ==
    /\ pc = "rd_loop" /\ AppCanRun
    /\ IF numOfBytes = 0
       THEN IF ~mIsOpen
            THEN Throw("NotOpen") /\ UNCHANGED result
            ELSE IF mIsQueueDataAvailable
                 THEN pc' = "rb_lock1" /\ UNCHANGED <<err, result>>
                 ELSE pc' = "ret" /\ err' = "ok" /\ result' = Len(dataBuffer)
       ELSE IF Len(dataBuffer) < numOfBytes
            THEN pc' = "rb_lock1" /\ UNCHANGED <<err, result>>
            ELSE pc' = "ret" /\ err' = "ok" /\ result' = Len(dataBuffer)
    /\ UNCHANGED <<objVars, osVars, call, argVars, queueSize, entry_time,
                   charBuffer, dataBuffer, rl_entry_time, sigVars, histVars>>
    /\ UNCHANGED bufVars

(***************************************************************************)
(* SerialPort::Implementation::ReadLine                                    *)
(***************************************************************************)
\* dataString.clear(); gettimeofday(&entry_time)
ReadLineCall(timeout, terminator) ==
    /\ Begin("ReadLine")
    /\ msTimeout' = timeout /\ lineTerminator' = terminator
    /\ ioInCall' = FALSE /\ popInCall' = FALSE
    /\ rl_entry_time' = TimeVal(now)
    /\ pc' = "rl_time" /\ err' = "none"
    /\ UNCHANGED <<objVars, osVars, numOfBytes, argValue, queueSize,
                   entry_time, charBuffer, dataBuffer, result, sigVars,
                   streamHist, lifeHist, pushedInTime>>
    /\ UNCHANGED bufVars

\* gettimeofday(&curr_time), the deadline test against ReadLine's own entry
\* time, then ReadByte.
RLTime ==
    /\ pc = "rl_time" /\ AppCanRun
    /\ IF TimedOut(msTimeout, rl_entry_time, TimeVal(now))
       THEN Throw("ReadTimeout")
       ELSE pc' = "rb_lock1" /\ err' = "none"
    /\ UNCHANGED <<objVars, osVars, call, argVars, locVars, sigVars, histVars>>
    /\ UNCHANGED bufVars

(***************************************************************************)
(* The attribute setters and getters of SerialPort::Implementation.  Each  *)
(* reads the device's termios, changes it and writes it back.              *)
(***************************************************************************)
\* The speeds of BAUD_50 to BAUD_115200.
StreamBaudRates ==
    {"B50", "B75", "B110", "B134", "B150", "B200", "B300", "B600", "B1200",
     "B1800", "B2400", "B4800", "B9600", "B19200", "B38400", "B57600",
     "B115200"}

\* The speeds cfsetispeed and cfsetospeed accept.
SupportedSpeeds == {"B0", "B230400"} \cup StreamBaudRates

\* SetBaudRate: cfsetispeed, cfsetospeed
BaudRateBits(t, baudRate) == [t EXCEPT !.ispeed = baudRate, !.ospeed = baudRate]

\* SetCharSize: c_cflag &= ~CSIZE; c_cflag |= charSize
CharSizeBits(t, charSize) == [t EXCEPT !.csize = charSize]

\* SetParity
ParityBits(t, parityType) ==
    CASE parityType = "PARITY_EVEN" ->
           [t EXCEPT !.c_cflag = (@ \cup {"PARENB"}) \ {"PARODD"},
                     !.c_iflag = @ \cup {"INPCK"}]
      [] parityType = "PARITY_ODD" ->
           [t EXCEPT !.c_cflag = @ \cup {"PARENB", "PARODD"},
                     !.c_iflag = @ \cup {"INPCK"}]
      [] OTHER ->
           [t EXCEPT !.c_cflag = @ \ {"PARENB"},
                     !.c_iflag = @ \cup {"IGNPAR"}]

\* SetNumOfStopBits
StopBitsBits(t, numOfStopBits) ==
    IF numOfStopBits = "STOP_BITS_2"
    THEN [t EXCEPT !.c_cflag = @ \cup {"CSTOPB"}]
    ELSE [t EXCEPT !.c_cflag = @ \ {"CSTOPB"}]

\* SetFlowControl
FlowControlBits(t, flowControl) ==
    IF flowControl = "FLOW_CONTROL_HARD"
    THEN [t EXCEPT !.c_cflag = @ \cup {"CRTSCTS"}]
    ELSE [t EXCEPT !.c_cflag = @ \ {"CRTSCTS"}]

Setters == {"SetBaudRate", "SetCharSize", "SetParity", "SetNumOfStopBits",
            "SetFlowControl"}

\* The values a setter's switch (or cfsetispeed) accepts.
SetterAccepts(op, v) ==
    CASE op = "SetBaudRate" -> v \in SupportedSpeeds
      [] op = "SetCharSize" -> TRUE
      [] op = "SetParity" -> v \in {"PARITY_EVEN", "PARITY_ODD", "PARITY_NONE"}
      [] op = "SetNumOfStopBits" -> v \in {"STOP_BITS_1", "STOP_BITS_2"}
      [] op = "SetFlowControl" -> v \in {"FLOW_CONTROL_HARD", "FLOW_CONTROL_NONE"}

\* The termios a setter writes back.
SetterBits(op, t, v) ==
    CASE op = "SetBaudRate" -> BaudRateBits(t, v)
      [] op = "SetCharSize" -> CharSizeBits(t, v)
      [] op = "SetParity" -> ParityBits(t, v)
      [] op = "SetNumOfStopBits" -> StopBitsBits(t, v)
      [] op = "SetFlowControl" -> FlowControlBits(t, v)

\* The exception of a setter for a value it does not accept, and for a
\* failing tcsetattr.
SetterError(op) ==
    IF op = "SetBaudRate" THEN "UnsupportedBaudRate" ELSE "InvalidArgument"

\* A setter, from its IsOpen() test to its return.
ConfigSet(op, v) ==
    /\ Begin(op)
    /\ argValue' = v
    /\ popInCall' = FALSE
    /\ IF ~mIsOpen
       THEN /\ Throw("NotOpen")
            /\ ioInCall' = FALSE
            /\ UNCHANGED <<devAttr, fails, configured>>
       ELSE /\ ioInCall' = TRUE
            /\ \/ /\ CanFail /\ fails' = fails + 1
                  /\ Throw("RuntimeError")
                  /\ UNCHANGED <<devAttr, configured>>
               \/ /\ ~SetterAccepts(op, v)
                  /\ Throw(SetterError(op))
                  /\ UNCHANGED <<devAttr, fails, configured>>
               \/ /\ SetterAccepts(op, v)
                  /\ CanFail /\ fails' = fails + 1
                  /\ Throw(SetterError(op))
                  /\ UNCHANGED <<devAttr, configured>>
               \/ /\ SetterAccepts(op, v)
                  /\ devAttr' = SetterBits(op, devAttr, v)
                  /\ configured' = configured + 1
                  /\ pc' = "ret" /\ err' = "ok"
                  /\ fails' = fails
    /\ UNCHANGED <<objVars, osFds, devBuf, modemLines, attached, envVars,
                   msTimeout, numOfBytes, lineTerminator, locVars, sigVars,
                   streamHist, lastOk, snapAtOpen, restoreOk, pushedInTime>>
    /\ UNCHANGED bufVars

\* The application makes at most MaxConfig successful setter calls on an
\* open port.
MayConfigure == ~mIsOpen \/ configured < MaxConfig

BaudArgs == {"B9600", "B115200", "B76800"}
CharSizeArgs == {"CS7", "CS8"}
ParityArgs == {"PARITY_EVEN", "PARITY_ODD", "PARITY_NONE", "PARITY_INVALID"}
StopBitsArgs == {"STOP_BITS_1", "STOP_BITS_2", "STOP_BITS_INVALID"}
FlowControlArgs == {"FLOW_CONTROL_HARD", "FLOW_CONTROL_SOFT", "FLOW_CONTROL_NONE"}

SetBaudRate == MayConfigure /\ \E v \in BaudArgs : ConfigSet("SetBaudRate", v)
SetCharSize == MayConfigure /\ \E v \in CharSizeArgs : ConfigSet("SetCharSize", v)
SetParity == MayConfigure /\ \E v \in ParityArgs : ConfigSet("SetParity", v)
SetNumOfStopBits == MayConfigure /\ \E v \in StopBitsArgs : ConfigSet("SetNumOfStopBits", v)
SetFlowControl == MayConfigure /\ \E v \in FlowControlArgs : ConfigSet("SetFlowControl", v)

Getters == {"GetBaudRate", "GetCharSize", "GetParity", "GetNumOfStopBits",
            "GetFlowControl"}

\* The value a getter derives from the termios it read.
GetterValue(op, t) ==
    CASE op = "GetBaudRate" -> t.ispeed
      [] op = "GetCharSize" -> t.csize
      [] op = "GetParity" ->
           IF "PARENB" \in t.c_cflag
           THEN IF "PARODD" \in t.c_cflag THEN "PARITY_ODD" ELSE "PARITY_EVEN"
           ELSE "PARITY_NONE"
      [] op = "GetNumOfStopBits" ->
           IF "CSTOPB" \in t.c_cflag THEN "STOP_BITS_2" ELSE "STOP_BITS_1"
      [] op = "GetFlowControl" ->
           IF "CRTSCTS" \in t.c_cflag
           THEN "FLOW_CONTROL_HARD" ELSE "FLOW_CONTROL_NONE"

\* A getter, from its IsOpen() test to its return.
ConfigGet(op) ==
    /\ Begin(op)
    /\ popInCall' = FALSE
    /\ IF ~mIsOpen
       THEN /\ Throw("NotOpen")
            /\ ioInCall' = FALSE
            /\ UNCHANGED <<fails, result>>
       ELSE /\ ioInCall' = TRUE
            /\ \/ /\ CanFail /\ fails' = fails + 1
                  /\ Throw("RuntimeError")
                  /\ UNCHANGED result
               \/ /\ result' = GetterValue(op, devAttr)
                  /\ pc' = "ret" /\ err' = "ok"
                  /\ fails' = fails
    /\ UNCHANGED <<objVars, devVars, attached, envVars, argVars, queueSize,
                   entry_time, charBuffer, dataBuffer, rl_entry_time, sigVars,
                   streamHist, lifeHist, pushedInTime>>
    /\ UNCHANGED bufVars

GetAttribute == \E op \in Getters : ConfigGet(op)

\* IsDataAvailable
IsDataAvailableCall ==
    /\ Begin("IsDataAvailable")
    /\ ioInCall' = FALSE /\ popInCall' = FALSE
    /\ IF ~mIsOpen
       THEN Throw("NotOpen") /\ UNCHANGED result
       ELSE pc' = "ret" /\ err' = "ok" /\ result' = mIsQueueDataAvailable
    /\ UNCHANGED <<objVars, osVars, argVars, queueSize, entry_time, charBuffer,
                   dataBuffer, rl_entry_time, sigVars, streamHist, lifeHist,
                   pushedInTime>>
    /\ UNCHANGED bufVars

(***************************************************************************)
(* The attribute setters and getters of SerialStreamBuf::Implementation.   *)
(* They report a failure by the Invalid value of their type (0 for the     *)
(* number of stop bits), and a setter returns what its getter reads back.  *)
(***************************************************************************)
\* The control characters of software flow control, and the value that
\* disables a control character.
CTRL_Q == 17
CTRL_S == 19
POSIX_VDISABLE == 0

StreamSetters ==
    {"SerialStreamBuf::SetBaudRate", "SerialStreamBuf::SetCharSize",
     "SerialStreamBuf::SetNumOfStopBits", "SerialStreamBuf::SetParity",
     "SerialStreamBuf::SetFlowControl"}

StreamGetters ==
    {"SerialStreamBuf::GetBaudRate", "SerialStreamBuf::GetCharSize",
     "SerialStreamBuf::GetNumOfStopBits", "SerialStreamBuf::GetParity",
     "SerialStreamBuf::GetFlowControl"}

\* The values the switch of a setter accepts; SetFlowControl takes every
\* value that is not HARD or SOFT as NONE.
StreamSetterAccepts(op, v) ==
    CASE op = "SerialStreamBuf::SetBaudRate" -> v \in StreamBaudRates
      [] op = "SerialStreamBuf::SetCharSize" -> v \in {"CS5", "CS6", "CS7", "CS8"}
      [] op = "SerialStreamBuf::SetNumOfStopBits" -> v \in {1, 2}
      [] op = "SerialStreamBuf::SetParity" ->
           v \in {"PARITY_EVEN", "PARITY_ODD", "PARITY_NONE"}
      [] op = "SerialStreamBuf::SetFlowControl" -> TRUE

\* A setter that keeps software flow control enabled when it switches to
\* hardware flow control.
StreamSetterBitsKeepXon(op, t, v) ==
    CASE op = "SerialStreamBuf::SetBaudRate" ->
           [t EXCEPT !.ispeed = v, !.ospeed = v]
      [] op = "SerialStreamBuf::SetCharSize" ->
           [t EXCEPT !.c_iflag = IF v = "CS8" THEN @ \ {"ISTRIP"}
                                             ELSE @ \cup {"ISTRIP"},
                     !.csize = v]
      [] op = "SerialStreamBuf::SetNumOfStopBits" ->
           [t EXCEPT !.c_cflag = IF v = 2 THEN @ \cup {"CSTOPB"}
                                          ELSE @ \ {"CSTOPB"}]
      [] op = "SerialStreamBuf::SetParity" ->
           [t EXCEPT !.c_cflag =
               CASE v = "PARITY_EVEN" -> (@ \cup {"PARENB"}) \ {"PARODD"}
                 [] v = "PARITY_ODD" -> @ \cup {"PARENB", "PARODD"}
                 [] OTHER -> @ \ {"PARENB"}]
      [] op = "SerialStreamBuf::SetFlowControl" ->
           CASE v = "FLOW_CONTROL_HARD" ->
                  [t EXCEPT !.c_cflag = @ \cup {"CRTSCTS"},
                            !.c_cc = [@ EXCEPT !.VSTART = POSIX_VDISABLE,
                                               !.VSTOP = POSIX_VDISABLE]]
             [] v = "FLOW_CONTROL_SOFT" ->
                  [t EXCEPT !.c_iflag = @ \cup {"IXON", "IXOFF"},
                            !.c_cflag = @ \ {"CRTSCTS"},
                            !.c_cc = [@ EXCEPT !.VSTART = CTRL_Q,
                                               !.VSTOP = CTRL_S]]
             [] OTHER ->
                  [t EXCEPT !.c_iflag = @ \ {"IXON", "IXOFF"},
                            !.c_cflag = @ \ {"CRTSCTS"}]

\* A SetParity that assigns the parity bits to c_cflag and so loses CSTOPB.
StreamSetterBitsParityAssigns(op, t, v) ==
    CASE op = "SerialStreamBuf::SetBaudRate" ->
           [t EXCEPT !.ispeed = v, !.ospeed = v]
      [] op = "SerialStreamBuf::SetCharSize" ->
           [t EXCEPT !.c_iflag = IF v = "CS8" THEN @ \ {"ISTRIP"}
                                             ELSE @ \cup {"ISTRIP"},
                     !.csize = v]
      [] op = "SerialStreamBuf::SetNumOfStopBits" ->
           [t EXCEPT !.c_cflag = IF v = 2 THEN @ \cup {"CSTOPB"}
                                          ELSE @ \ {"CSTOPB"}]
      [] op = "SerialStreamBuf::SetParity" ->
           [t EXCEPT !.c_cflag =
               CASE v = "PARITY_EVEN" -> ((@ \cup {"PARENB"}) \ {"PARODD"})
                                            \ {"CSTOPB"}
                 [] v = "PARITY_ODD" -> (@ \cup {"PARENB", "PARODD"})
                                           \ {"CSTOPB"}
                 [] OTHER -> @ \ {"PARENB", "CSTOPB"}]
      [] op = "SerialStreamBuf::SetFlowControl" ->
           CASE v = "FLOW_CONTROL_HARD" ->
                  [t EXCEPT !.c_iflag = @ \ {"IXON", "IXOFF"},
                            !.c_cflag = @ \cup {"CRTSCTS"},
                            !.c_cc = [@ EXCEPT !.VSTART = POSIX_VDISABLE,
                                               !.VSTOP = POSIX_VDISABLE]]
             [] v = "FLOW_CONTROL_SOFT" ->
                  [t EXCEPT !.c_iflag = @ \cup {"IXON", "IXOFF"},
                            !.c_cflag = @ \ {"CRTSCTS"},
                            !.c_cc = [@ EXCEPT !.VSTART = CTRL_Q,
                                               !.VSTOP = CTRL_S]]
             [] OTHER ->
                  [t EXCEPT !.c_iflag = @ \ {"IXON", "IXOFF"},
                            !.c_cflag = @ \ {"CRTSCTS"}]

\* The termios a setter writes back.
StreamSetterBits(op, t, v) ==
    CASE op = "SerialStreamBuf::SetBaudRate" ->
           [t EXCEPT !.ispeed = v, !.ospeed = v]
      [] op = "SerialStreamBuf::SetCharSize" ->
           [t EXCEPT !.c_iflag = IF v = "CS8" THEN @ \ {"ISTRIP"}
                                             ELSE @ \cup {"ISTRIP"},
                     !.csize = v]
      [] op = "SerialStreamBuf::SetNumOfStopBits" ->
           [t EXCEPT !.c_cflag = IF v = 2 THEN @ \cup {"CSTOPB"}
                                          ELSE @ \ {"CSTOPB"}]
      [] op = "SerialStreamBuf::SetParity" ->
           [t EXCEPT !.c_cflag =
               CASE v = "PARITY_EVEN" -> (@ \cup {"PARENB"}) \ {"PARODD"}
                 [] v = "PARITY_ODD" -> @ \cup {"PARENB", "PARODD"}
                 [] OTHER -> @ \ {"PARENB"}]
      [] op = "SerialStreamBuf::SetFlowControl" ->
           CASE v = "FLOW_CONTROL_HARD" ->
                  [t EXCEPT !.c_iflag = @ \ {"IXON", "IXOFF"},
                            !.c_cflag = @ \cup {"CRTSCTS"},
                            !.c_cc = [@ EXCEPT !.VSTART = POSIX_VDISABLE,
                                               !.VSTOP = POSIX_VDISABLE]]
             [] v = "FLOW_CONTROL_SOFT" ->
                  [t EXCEPT !.c_iflag = @ \cup {"IXON", "IXOFF"},
                            !.c_cflag = @ \ {"CRTSCTS"},
                            !.c_cc = [@ EXCEPT !.VSTART = CTRL_Q,
                                               !.VSTOP = CTRL_S]]
             [] OTHER ->
                  [t EXCEPT !.c_iflag = @ \ {"IXON", "IXOFF"},
                            !.c_cflag = @ \ {"CRTSCTS"}]

\* The value by which a setter or getter reports a failure.
StreamInvalid(op) ==
    CASE op \in {"SerialStreamBuf::SetBaudRate", "SerialStreamBuf::GetBaudRate"} ->
           "BAUD_INVALID"
      [] op \in {"SerialStreamBuf::SetCharSize", "SerialStreamBuf::GetCharSize"} ->
           "CHAR_SIZE_INVALID"
      [] op \in {"SerialStreamBuf::SetNumOfStopBits",
                 "SerialStreamBuf::GetNumOfStopBits"} -> 0
      [] op \in {"SerialStreamBuf::SetParity", "SerialStreamBuf::GetParity"} ->
           "PARITY_INVALID"
      [] op \in {"SerialStreamBuf::SetFlowControl",
                 "SerialStreamBuf::GetFlowControl"} -> "FLOW_CONTROL_INVALID"
      [] op \in {"SerialStreamBuf::SetVMin", "SerialStreamBuf::GetVMin",
                 "SerialStreamBuf::SetVTime", "SerialStreamBuf::GetVTime"} -> -1

\* The getter of the attribute that a setter sets.
StreamGetterOf(op) ==
    CASE op = "SerialStreamBuf::SetBaudRate" -> "SerialStreamBuf::GetBaudRate"
      [] op = "SerialStreamBuf::SetCharSize" -> "SerialStreamBuf::GetCharSize"
      [] op = "SerialStreamBuf::SetNumOfStopBits" ->
           "SerialStreamBuf::GetNumOfStopBits"
      [] op = "SerialStreamBuf::SetParity" -> "SerialStreamBuf::GetParity"
      [] op = "SerialStreamBuf::SetFlowControl" ->
           "SerialStreamBuf::GetFlowControl"
      [] op = "SerialStreamBuf::SetVMin" -> "SerialStreamBuf::GetVMin"
      [] op = "SerialStreamBuf::SetVTime" -> "SerialStreamBuf::GetVTime"

\* The value a getter derives from the termios it read.
StreamGetterValue(op, t) ==
    CASE op = "SerialStreamBuf::GetBaudRate" ->
           IF t.ispeed # t.ospeed \/ t.ispeed \notin StreamBaudRates
           THEN "BAUD_INVALID" ELSE t.ispeed
      [] op = "SerialStreamBuf::GetCharSize" -> t.csize
      [] op = "SerialStreamBuf::GetNumOfStopBits" ->
           IF "CSTOPB" \in t.c_cflag THEN 2 ELSE 1
      [] op = "SerialStreamBuf::GetParity" ->
           IF "PARENB" \in t.c_cflag
           THEN IF "PARODD" \in t.c_cflag THEN "PARITY_ODD" ELSE "PARITY_EVEN"
           ELSE "PARITY_NONE"
      [] op = "SerialStreamBuf::GetFlowControl" ->
           IF /\ "IXON" \in t.c_iflag /\ "IXOFF" \in t.c_iflag
              /\ CTRL_Q = t.c_cc.VSTART /\ CTRL_S = t.c_cc.VSTOP
           THEN "FLOW_CONTROL_SOFT"
           ELSE IF ~("IXON" \in t.c_iflag \/ "IXOFF" \in t.c_iflag)
                THEN IF "CRTSCTS" \in t.c_cflag
                     THEN "FLOW_CONTROL_HARD" ELSE "FLOW_CONTROL_NONE"
                ELSE "FLOW_CONTROL_INVALID"
      [] op = "SerialStreamBuf::GetVMin" -> t.c_cc.VMIN
      [] op = "SerialStreamBuf::GetVTime" -> t.c_cc.VTIME

\* mFileDescriptor names a descriptor the OS has open: it does not after a
\* ::close that failed and released the descriptor all the same.
StreamFdOk == sbFileDescriptor \in DOMAIN osFds

\* An OS call on mFileDescriptor fails: by an error of the device, or
\* because the descriptor is not open (EBADF).
StreamOsFails ==
    \/ StreamFdOk /\ CanFail /\ fails' = fails + 1
    \/ ~StreamFdOk /\ fails' = fails

\* What a call of the Stream API records when it begins.
StreamBegin(op) ==
    /\ pc = "idle" /\ AppCanRun
    /\ call' = op
    /\ closedAtCall' = (sbFileDescriptor = -1)
    /\ accepted' = 0 /\ popInCall' = FALSE

\* A setter, from its test of mFileDescriptor to its return: the OS may
\* fail before the attributes are written (tcflush, tcgetattr, tcsetattr)
\* or when the getter reads them back.  SetBaudRate and SetCharSize test
\* their argument before any call of the OS, the other setters read the
\* attributes first; SetFlowControl begins with tcflush(TCIOFLUSH).
StreamSet(op, v) ==
    LET flushed == IF op = "SerialStreamBuf::SetFlowControl"
                   THEN <<>> ELSE devBuf
    IN
    /\ StreamBegin(op)
    /\ argValue' = v
    /\ pc' = "ret" /\ err' = "ok"
    /\ IF sbFileDescriptor = -1
       THEN /\ result' = StreamInvalid(op)
            /\ ioInCall' = FALSE
            /\ UNCHANGED <<devAttr, devBuf, fails>>
       ELSE \/ /\ ~StreamSetterAccepts(op, v)
               /\ result' = StreamInvalid(op)
               /\ ioInCall' = (op \notin {"SerialStreamBuf::SetBaudRate",
                                         "SerialStreamBuf::SetCharSize"})
               /\ UNCHANGED <<devAttr, devBuf, fails>>
            \/ /\ StreamOsFails
               /\ result' = StreamInvalid(op)
               /\ ioInCall' = TRUE
               /\ devBuf' \in {devBuf, flushed}
               /\ UNCHANGED devAttr
            \/ /\ StreamSetterAccepts(op, v) /\ StreamFdOk
               /\ CanFail /\ fails' = fails + 1
               /\ devAttr' = StreamSetterBits(op, devAttr, v)
               /\ devBuf' = flushed
               /\ result' = StreamInvalid(op)
               /\ ioInCall' = TRUE
            \/ /\ StreamSetterAccepts(op, v) /\ StreamFdOk
               /\ devAttr' = StreamSetterBits(op, devAttr, v)
               /\ devBuf' = flushed
               /\ result' = StreamGetterValue(StreamGetterOf(op), devAttr')
               /\ ioInCall' = TRUE
               /\ fails' = fails
    /\ UNCHANGED <<objVars, bufVars, osFds, modemLines, attached, envVars,
                   msTimeout, numOfBytes, lineTerminator, queueSize,
                   entry_time, charBuffer, dataBuffer, rl_entry_time, sigVars,
                   streamHist, lifeHist, pushedInTime>>

\* What the device holds after a tcsetattr that reports success: the
\* attributes asked for, or the ones it had when the driver cannot perform
\* the change (tcsetattr succeeds when any of the requested actions was
\* performed).
TcsetattrStores(had, asked) == {asked, had}

\* A setter of the five whose change the driver does not perform: tcsetattr
\* reports success and the setter returns what its getter reads.
StreamSetUnperformed(op, v) ==
    /\ StreamBegin(op)
    /\ argValue' = v
    /\ pc' = "ret" /\ err' = "ok"
    /\ StreamFdOk /\ StreamSetterAccepts(op, v)
    /\ devAttr' \in TcsetattrStores(devAttr, StreamSetterBits(op, devAttr, v))
    /\ devAttr' = devAttr
    /\ devBuf' = IF op = "SerialStreamBuf::SetFlowControl" THEN <<>> ELSE devBuf
    /\ result' = StreamGetterValue(StreamGetterOf(op), devAttr')
    /\ ioInCall' = TRUE
    /\ fails' = fails
    /\ UNCHANGED <<objVars, bufVars, osFds, modemLines, attached, envVars,
                   msTimeout, numOfBytes, lineTerminator, queueSize,
                   entry_time, charBuffer, dataBuffer, rl_entry_time, sigVars,
                   streamHist, lifeHist, pushedInTime>>

CcSetters == {"SerialStreamBuf::SetVMin", "SerialStreamBuf::SetVTime"}

CcGetters == {"SerialStreamBuf::GetVMin", "SerialStreamBuf::GetVTime"}

\* The control character SetVMin and SetVTime write.
CcIndex(op) == IF op = "SerialStreamBuf::SetVMin" THEN "VMIN" ELSE "VTIME"

\* The value SetVMin and SetVTime return after tcsetattr succeeded: their
\* argument.
StreamCcResult(op, v, t) == v

\* SetVMin and SetVTime, from the test of mFileDescriptor to the return: the
\* argument is tested before any call of the OS, tcgetattr or tcsetattr may
\* fail, and the value is written as a cc_t.
StreamSetCc(op, v) ==
    LET asked == [devAttr EXCEPT !.c_cc = [@ EXCEPT ![CcIndex(op)] = v % 256]]
    IN
    /\ StreamBegin(op)
    /\ argValue' = v
    /\ pc' = "ret" /\ err' = "ok"
    /\ IF sbFileDescriptor = -1 \/ v < 0 \/ v > 255
       THEN /\ result' = StreamInvalid(op)
            /\ ioInCall' = FALSE
            /\ UNCHANGED <<devAttr, fails>>
       ELSE /\ ioInCall' = TRUE
            /\ \/ /\ StreamOsFails
                  /\ result' = StreamInvalid(op)
                  /\ UNCHANGED devAttr
               \/ /\ StreamFdOk
                  /\ devAttr' \in TcsetattrStores(devAttr, asked)
                  /\ result' = StreamCcResult(op, v, devAttr')
                  /\ fails' = fails
    /\ UNCHANGED <<objVars, bufVars, osFds, devBuf, modemLines, attached,
                   envVars, msTimeout, numOfBytes, lineTerminator, queueSize,
                   entry_time, charBuffer, dataBuffer, rl_entry_time, sigVars,
                   streamHist, lifeHist, pushedInTime>>

\* A getter, from its test of mFileDescriptor to its return.
StreamGet(op) ==
    /\ StreamBegin(op)
    /\ pc' = "ret" /\ err' = "ok"
    /\ IF sbFileDescriptor = -1
       THEN /\ result' = StreamInvalid(op)
            /\ ioInCall' = FALSE
            /\ fails' = fails
       ELSE /\ ioInCall' = TRUE
            /\ \/ /\ StreamOsFails
                  /\ result' = StreamInvalid(op)
               \/ /\ StreamFdOk
                  /\ result' = StreamGetterValue(op, devAttr)
                  /\ fails' = fails
    /\ UNCHANGED <<objVars, bufVars, devVars, attached, envVars, argVars,
                   queueSize, entry_time, charBuffer, dataBuffer,
                   rl_entry_time, sigVars, streamHist, lifeHist,
                   pushedInTime>>

(***************************************************************************)
(* The life cycle and the input of SerialStreamBuf.  The buffer reads the  *)
(* descriptor directly; mPutbackChar holds one character of putback.       *)
(***************************************************************************)
\* traits_type::eof()
Eof == -1

\* traits_type::to_char_type: an int_type as a char (8 bits, signed).
ToChar(c) == ((c + 128) % 256) - 128

\* traits_type::to_int_type: a char as the int_type of its unsigned value.
ToInt(ch) == ch % 256

\* What the variables left alone by every call of this section keep.
StreamFrame ==
    UNCHANGED <<objVars, modemLines, attached, envVars, msTimeout,
                lineTerminator, queueSize, entry_time, charBuffer,
                rl_entry_time, sigVars, streamHist, lifeHist, pushedInTime,
                thrVars, handledAtOpen>>

\* The outcomes of read(mFileDescriptor, buffer, n): the bytes the driver
\* holds, up to n of them; without any, 0 (end of file) from a blocking
\* descriptor and -1 (EAGAIN) from a non-blocking one; -1 for an error.
StreamReads(n) ==
    LET k == IF Len(devBuf) < n THEN Len(devBuf) ELSE n IN
    IF ~StreamFdOk
    THEN {[rv |-> -1, got |-> <<>>, failed |-> FALSE]}
    ELSE (IF devBuf # <<>>
          THEN {[rv |-> k, got |-> SubSeq(devBuf, 1, k), failed |-> FALSE]}
          ELSE {[rv |-> IF osFds[sbFileDescriptor].nonblock THEN -1 ELSE 0,
                 got |-> <<>>, failed |-> FALSE]})
         \cup (IF CanFail
               THEN {[rv |-> -1, got |-> <<>>, failed |-> TRUE]}
               ELSE {})

\* The device after a read with outcome o.
StreamReadDone(o) ==
    /\ devBuf' = SubSeq(devBuf, Len(o.got) + 1, Len(devBuf))
    /\ fails' = IF o.failed THEN fails + 1 ELSE fails

\* The attributes SetParametersToDefault writes: IGNBRK, B19200 | CS8 |
\* CLOCAL | CREAD, VTIME 0 and VMIN 1.  The setters it then calls with the
\* defaults of the class are taken to repeat these values.
StreamDefaultSettings ==
    [ZeroTermios EXCEPT !.c_iflag = {"IGNBRK"},
                        !.c_cflag = {"CLOCAL", "CREAD"},
                        !.csize = "CS8",
                        !.ispeed = "B19200", !.ospeed = "B19200",
                        !.c_cc = [@ EXCEPT !.VMIN = 1, !.VTIME = 0]]

\* The setters SetParametersToDefault calls with the defaults of the class.
DefaultSetters ==
    {"SerialStreamBuf::SetBaudRate", "SerialStreamBuf::SetCharSize",
     "SerialStreamBuf::SetNumOfStopBits", "SerialStreamBuf::SetParity",
     "SerialStreamBuf::SetFlowControl", "SerialStreamBuf::SetVMin",
     "SerialStreamBuf::SetVTime"}

\* The value SetParametersToDefault compares the result of a setter with.
DefaultsTest(op) ==
    CASE op = "SerialStreamBuf::SetBaudRate" -> "BAUD_INVALID"
      [] op = "SerialStreamBuf::SetCharSize" -> "CHAR_SIZE_INVALID"
      [] OTHER -> -1

\* SetParametersToDefault takes the result of a failed setter for a failure.
\* SetNumOfStopBits reports failure by 0 and is compared with -1.  SetParity
\* and SetFlowControl report PARITY_INVALID and FLOW_CONTROL_INVALID, whose
\* numbers the class declaration fixes; they are taken to be the -1 of the
\* comparison.
DefaultsNotice(op) ==
    IF op \in {"SerialStreamBuf::SetParity", "SerialStreamBuf::SetFlowControl"}
    THEN TRUE
    ELSE StreamInvalid(op) = DefaultsTest(op)

\* The result of SetParametersToDefault when the step named failed
\* ("none": no step did): tcgetattr, tcsetattr or one of the setters.
SetParametersToDefault(failed) ==
    IF failed \in {"tcgetattr", "tcsetattr"} THEN -1
    ELSE IF failed \in DefaultSetters /\ DefaultsNotice(failed) THEN -1
    ELSE 0

\* The result of InitializeSerialPort when the step named failed: one of
\* its two fcntl(F_SETFL), tcflush, or a step of SetParametersToDefault.
InitializeSerialPort(failed) ==
    IF failed \in {"F_SETFL", "tcflush"} THEN -1
    ELSE IF SetParametersToDefault(failed) = -1 THEN -1
    ELSE 0

\* The file status flags of a descriptor opened with O_NOCTTY and the
\* access mode.
StreamOpenFlags == [nonblock |-> FALSE, async |-> FALSE, owner |-> FALSE]

\* SerialStreamBuf::open, from its is_open() test to its return.  A call of
\* the OS may fail in InitializeSerialPort: at its first fcntl, at tcflush,
\* in SetParametersToDefault or at its last fcntl.  When
\* InitializeSerialPort returns -1, open returns 0 and leaves
\* mFileDescriptor as ::open set it.
StreamOpen(mode) ==
    LET opened(flags) == [d \in DOMAIN osFds \cup {NewFd} |->
                            IF d = NewFd THEN flags ELSE osFds[d]]
        nonblocking == [StreamOpenFlags EXCEPT !.nonblock = TRUE]
    IN
    /\ StreamBegin("SerialStreamBuf::open")
    /\ argValue' = mode
    /\ pc' = "ret" /\ err' = "ok"
    /\ \/ /\ sbFileDescriptor # -1
          /\ result' = FALSE /\ ioInCall' = FALSE
          /\ UNCHANGED <<sbFileDescriptor, sbOpened, osFds, devAttr, devBuf,
                         fails>>
       \/ /\ sbFileDescriptor = -1
          /\ mode \notin {"in|out", "in", "out"}
          /\ result' = FALSE /\ ioInCall' = FALSE
          /\ sbOpened' = FALSE
          /\ UNCHANGED <<sbFileDescriptor, osFds, devAttr, devBuf, fails>>
       \/ /\ sbFileDescriptor = -1
          /\ mode \in {"in|out", "in", "out"}
          /\ ioInCall' = TRUE
          /\ \/ /\ CanFail /\ fails' = fails + 1
                /\ result' = FALSE /\ sbOpened' = FALSE
                /\ UNCHANGED <<sbFileDescriptor, osFds, devAttr, devBuf>>
             \/ /\ CanFail /\ fails' = fails + 1
                /\ sbFileDescriptor' = NewFd
                /\ \/ /\ osFds' = opened(StreamOpenFlags)
                      /\ result' = (InitializeSerialPort("F_SETFL") # -1)
                      /\ UNCHANGED <<devAttr, devBuf>>
                   \/ \E step \in {"tcflush", "tcgetattr", "tcsetattr"} :
                        /\ result' = (InitializeSerialPort(step) # -1)
                        /\ osFds' = opened(nonblocking)
                        /\ devBuf' \in IF step = "tcflush"
                                       THEN {devBuf, <<>>} ELSE {<<>>}
                        /\ devAttr' = devAttr
                   \/ \E step \in DefaultSetters \cup {"F_SETFL"} :
                        /\ result' = (InitializeSerialPort(step) # -1)
                        /\ osFds' = opened(IF result' THEN StreamOpenFlags
                                                      ELSE nonblocking)
                        /\ devBuf' = <<>>
                        /\ devAttr' = StreamDefaultSettings
                /\ sbOpened' = result'
             \/ /\ sbFileDescriptor' = NewFd
                /\ osFds' = opened(StreamOpenFlags)
                /\ devBuf' = <<>>
                /\ devAttr' = StreamDefaultSettings
                /\ result' = TRUE /\ sbOpened' = TRUE
                /\ fails' = fails
    /\ sbLast' = <<call', result'>>
    /\ UNCHANGED <<mPutbackChar, mPutbackAvailable, sbTaken, numOfBytes,
                   dataBuffer>>
    /\ StreamFrame

\* SerialStreamBuf::close.  A ::close that fails may have released the
\* descriptor all the same.
StreamClose ==
    LET released == [d \in DOMAIN osFds \ {sbFileDescriptor} |-> osFds[d]] IN
    /\ StreamBegin("SerialStreamBuf::close")
    /\ pc' = "ret" /\ err' = "ok"
    /\ \/ /\ sbFileDescriptor = -1
          /\ result' = FALSE /\ ioInCall' = FALSE
          /\ UNCHANGED <<sbFileDescriptor, sbOpened, osFds, fails>>
       \/ /\ sbFileDescriptor # -1
          /\ ioInCall' = TRUE
          /\ \/ /\ StreamOsFails
                /\ result' = FALSE
                /\ osFds' \in {osFds, released}
                /\ UNCHANGED <<sbFileDescriptor, sbOpened>>
             \/ /\ StreamFdOk
                /\ osFds' = released
                /\ sbFileDescriptor' = -1
                /\ result' = TRUE /\ sbOpened' = FALSE
                /\ fails' = fails
    /\ sbLast' = <<call', result'>>
    /\ UNCHANGED <<mPutbackChar, mPutbackAvailable, sbTaken, devAttr, devBuf,
                   argValue, numOfBytes, dataBuffer>>
    /\ StreamFrame

\* An underflow that does not keep the character it read as the putback
\* character.
StreamPullForgets(op) ==
    LET consumes == (op = "SerialStreamBuf::uflow") IN
    /\ StreamBegin(op)
    /\ pc' = "ret" /\ err' = "ok"
    /\ IF sbFileDescriptor = -1
       THEN /\ result' = Eof /\ ioInCall' = FALSE
            /\ mPutbackAvailable' = (mPutbackAvailable /\ ~consumes)
            /\ UNCHANGED <<mPutbackChar, devBuf, fails>>
       ELSE IF mPutbackAvailable
            THEN /\ result' = ToInt(mPutbackChar) /\ ioInCall' = FALSE
                 /\ mPutbackAvailable' = ~consumes
                 /\ UNCHANGED <<mPutbackChar, devBuf, fails>>
            ELSE /\ ioInCall' = TRUE
                 /\ \E o \in StreamReads(1) :
                      /\ StreamReadDone(o)
                      /\ IF o.rv = 1
                         THEN /\ mPutbackChar' = ToChar(o.got[1])
                              /\ mPutbackAvailable' = FALSE
                              /\ result' = ToInt(mPutbackChar')
                         ELSE /\ result' = Eof
                              /\ UNCHANGED <<mPutbackChar, mPutbackAvailable>>
    /\ sbTaken' = IF consumes /\ result' # Eof
                  THEN Append(sbTaken, result') ELSE sbTaken
    /\ sbLast' = <<op, result'>>
    /\ UNCHANGED <<sbFileDescriptor, sbOpened, osFds, devAttr, argValue,
                   numOfBytes, dataBuffer>>
    /\ StreamFrame

\* A uflow that leaves the putback character it returned pending.
StreamPullRepeats(op) ==
    LET consumes == (op = "SerialStreamBuf::uflow") IN
    /\ StreamBegin(op)
    /\ pc' = "ret" /\ err' = "ok"
    /\ IF sbFileDescriptor = -1
       THEN /\ result' = Eof /\ ioInCall' = FALSE
            /\ mPutbackAvailable' = (mPutbackAvailable /\ ~consumes)
            /\ UNCHANGED <<mPutbackChar, devBuf, fails>>
       ELSE IF mPutbackAvailable
            THEN /\ result' = ToInt(mPutbackChar) /\ ioInCall' = FALSE
                 /\ mPutbackAvailable' = TRUE
                 /\ UNCHANGED <<mPutbackChar, devBuf, fails>>
            ELSE /\ ioInCall' = TRUE
                 /\ \E o \in StreamReads(1) :
                      /\ StreamReadDone(o)
                      /\ IF o.rv = 1
                         THEN /\ mPutbackChar' = ToChar(o.got[1])
                              /\ mPutbackAvailable' = ~consumes
                              /\ result' = ToInt(mPutbackChar')
                         ELSE /\ result' = Eof
                              /\ UNCHANGED <<mPutbackChar, mPutbackAvailable>>
    /\ sbTaken' = IF consumes /\ result' # Eof
                  THEN Append(sbTaken, result') ELSE sbTaken
    /\ sbLast' = <<op, result'>>
    /\ UNCHANGED <<sbFileDescriptor, sbOpened, osFds, devAttr, argValue,
                   numOfBytes, dataBuffer>>
    /\ StreamFrame

\* underflow, and uflow, which calls underflow and then clears
\* mPutbackAvailable.
StreamPull(op) ==
    LET consumes == (op = "SerialStreamBuf::uflow") IN
    /\ StreamBegin(op)
    /\ pc' = "ret" /\ err' = "ok"
    /\ IF sbFileDescriptor = -1
       THEN /\ result' = Eof /\ ioInCall' = FALSE
            /\ mPutbackAvailable' = (mPutbackAvailable /\ ~consumes)
            /\ UNCHANGED <<mPutbackChar, devBuf, fails>>
       ELSE IF mPutbackAvailable
            THEN /\ result' = ToInt(mPutbackChar) /\ ioInCall' = FALSE
                 /\ mPutbackAvailable' = ~consumes
                 /\ UNCHANGED <<mPutbackChar, devBuf, fails>>
            ELSE /\ ioInCall' = TRUE
                 /\ \E o \in StreamReads(1) :
                      /\ StreamReadDone(o)
                      /\ IF o.rv = 1
                         THEN /\ mPutbackChar' = ToChar(o.got[1])
                              /\ mPutbackAvailable' = ~consumes
                              /\ result' = ToInt(mPutbackChar')
                         ELSE /\ result' = Eof
                              /\ UNCHANGED <<mPutbackChar, mPutbackAvailable>>
    /\ sbTaken' = IF consumes /\ result' # Eof
                  THEN Append(sbTaken, result') ELSE sbTaken
    /\ sbLast' = <<op, result'>>
    /\ UNCHANGED <<sbFileDescriptor, sbOpened, osFds, devAttr, argValue,
                   numOfBytes, dataBuffer>>
    /\ StreamFrame

underflow == StreamPull("SerialStreamBuf::underflow")
uflow == StreamPull("SerialStreamBuf::uflow")

\* A pbackfail that replaces a putback character that is pending.
pbackfailOverwrites(c) ==
    /\ StreamBegin("SerialStreamBuf::pbackfail")
    /\ argValue' = c
    /\ pc' = "ret" /\ err' = "ok"
    /\ ioInCall' = FALSE
    /\ IF sbFileDescriptor = -1 \/ c = Eof
       THEN /\ result' = Eof
            /\ UNCHANGED <<mPutbackChar, mPutbackAvailable>>
       ELSE /\ mPutbackChar' = ToChar(c)
            /\ mPutbackAvailable' = TRUE
            /\ result' = c
    /\ sbLast' = <<call', result'>>
    /\ UNCHANGED <<sbFileDescriptor, sbOpened, sbTaken, devVars, fails,
                   numOfBytes, dataBuffer>>
    /\ StreamFrame

\* pbackfail(c)
pbackfail(c) ==
    /\ StreamBegin("SerialStreamBuf::pbackfail")
    /\ argValue' = c
    /\ pc' = "ret" /\ err' = "ok"
    /\ ioInCall' = FALSE
    /\ IF sbFileDescriptor = -1 \/ mPutbackAvailable \/ c = Eof
       THEN /\ result' = Eof
            /\ UNCHANGED <<mPutbackChar, mPutbackAvailable>>
       ELSE /\ mPutbackChar' = ToChar(c)
            /\ mPutbackAvailable' = TRUE
            /\ result' = c
    /\ sbLast' = <<call', result'>>
    /\ UNCHANGED <<sbFileDescriptor, sbOpened, sbTaken, devVars, fails,
                   numOfBytes, dataBuffer>>
    /\ StreamFrame

\* xsgetn(s, n): dataBuffer is what the call stored in s.
xsgetn(n) ==
    /\ StreamBegin("SerialStreamBuf::xsgetn")
    /\ numOfBytes' = n
    /\ pc' = "ret" /\ err' = "ok"
    /\ IF sbFileDescriptor = -1 \/ n <= 0
       THEN /\ result' = 0 /\ ioInCall' = FALSE
            /\ dataBuffer' = <<>>
            /\ UNCHANGED <<mPutbackAvailable, devBuf, fails>>
       ELSE IF mPutbackAvailable
            THEN /\ mPutbackAvailable' = FALSE
                 /\ IF n > 1
                    THEN /\ ioInCall' = TRUE
                         /\ \E o \in StreamReads(n - 1) :
                              /\ StreamReadDone(o)
                              /\ dataBuffer' = <<ToInt(mPutbackChar)>> \o o.got
                              /\ result' = IF o.rv = -1 THEN 0 ELSE o.rv + 1
                    ELSE /\ ioInCall' = FALSE
                         /\ dataBuffer' = <<ToInt(mPutbackChar)>>
                         /\ result' = 1
                         /\ UNCHANGED <<devBuf, fails>>
            ELSE /\ ioInCall' = TRUE
                 /\ \E o \in StreamReads(n) :
                      /\ StreamReadDone(o)
                      /\ dataBuffer' = o.got
                      /\ result' = IF o.rv = -1 THEN 0 ELSE o.rv
                 /\ UNCHANGED mPutbackAvailable
    /\ sbLast' = <<call', result'>>
    /\ UNCHANGED <<sbFileDescriptor, mPutbackChar, sbOpened, sbTaken, osFds,
                   devAttr, argValue>>
    /\ StreamFrame

\* A showmanyc that does not switch the descriptor back.
showmanycStaysNonBlocking ==
    /\ StreamBegin("SerialStreamBuf::showmanyc")
    /\ pc' = "ret" /\ err' = "ok"
    /\ IF sbFileDescriptor = -1
       THEN /\ result' = -1 /\ ioInCall' = FALSE
            /\ UNCHANGED <<mPutbackChar, mPutbackAvailable, osFds, devBuf,
                           fails>>
       ELSE IF mPutbackAvailable
            THEN /\ result' = 1 /\ ioInCall' = FALSE
                 /\ UNCHANGED <<mPutbackChar, mPutbackAvailable, osFds,
                                devBuf, fails>>
            ELSE /\ ioInCall' = TRUE
                 /\ \/ /\ StreamOsFails
                       /\ result' = -1
                       /\ UNCHANGED <<mPutbackChar, mPutbackAvailable, osFds,
                                      devBuf>>
                    \/ /\ StreamFdOk
                       /\ \E o \in StreamReads(1) :
                            LET failed == IF o.failed THEN fails + 1 ELSE fails
                            IN
                            /\ devBuf' = SubSeq(devBuf, Len(o.got) + 1,
                                                Len(devBuf))
                            /\ IF o.rv = 1
                               THEN /\ mPutbackChar' = ToChar(o.got[1])
                                    /\ mPutbackAvailable' = TRUE
                               ELSE UNCHANGED <<mPutbackChar,
                                                mPutbackAvailable>>
                            /\ \/ /\ osFds' = [osFds EXCEPT
                                                 ![sbFileDescriptor].nonblock = TRUE]
                                  /\ result' = IF o.rv = 1 THEN 1 ELSE 0
                                  /\ fails' = failed
                               \/ /\ failed < MaxFail
                                  /\ fails' = failed + 1
                                  /\ osFds' = [osFds EXCEPT
                                                 ![sbFileDescriptor].nonblock = TRUE]
                                  /\ result' = -1
    /\ sbLast' = <<call', result'>>
    /\ UNCHANGED <<sbFileDescriptor, sbOpened, sbTaken, devAttr, argValue,
                   numOfBytes, dataBuffer>>
    /\ StreamFrame

\* showmanyc: with no putback character, switch the descriptor to
\* non-blocking, try to read one character into mPutbackChar, and switch
\* back.
showmanyc ==
    /\ StreamBegin("SerialStreamBuf::showmanyc")
    /\ pc' = "ret" /\ err' = "ok"
    /\ IF sbFileDescriptor = -1
       THEN /\ result' = -1 /\ ioInCall' = FALSE
            /\ UNCHANGED <<mPutbackChar, mPutbackAvailable, osFds, devBuf,
                           fails>>
       ELSE IF mPutbackAvailable
            THEN /\ result' = 1 /\ ioInCall' = FALSE
                 /\ UNCHANGED <<mPutbackChar, mPutbackAvailable, osFds,
                                devBuf, fails>>
            ELSE /\ ioInCall' = TRUE
                 /\ \/ /\ StreamOsFails
                       /\ result' = -1
                       /\ UNCHANGED <<mPutbackChar, mPutbackAvailable, osFds,
                                      devBuf>>
                    \/ /\ StreamFdOk
                       /\ \E o \in StreamReads(1) :
                            LET failed == IF o.failed THEN fails + 1 ELSE fails
                            IN
                            /\ devBuf' = SubSeq(devBuf, Len(o.got) + 1,
                                                Len(devBuf))
                            /\ IF o.rv = 1
                               THEN /\ mPutbackChar' = ToChar(o.got[1])
                                    /\ mPutbackAvailable' = TRUE
                               ELSE UNCHANGED <<mPutbackChar,
                                                mPutbackAvailable>>
                            /\ \/ /\ osFds' = osFds
                                  /\ result' = IF o.rv = 1 THEN 1 ELSE 0
                                  /\ fails' = failed
                               \/ /\ failed < MaxFail
                                  /\ fails' = failed + 1
                                  /\ osFds' = [osFds EXCEPT
                                                 ![sbFileDescriptor].nonblock = TRUE]
                                  /\ result' = -1
    /\ sbLast' = <<call', result'>>
    /\ UNCHANGED <<sbFileDescriptor, sbOpened, sbTaken, devAttr, argValue,
                   numOfBytes, dataBuffer>>
    /\ StreamFrame

(***************************************************************************)
(* SerialPort::Implementation::Write and WriteByte                         *)
(***************************************************************************)
\* Write(const DataBuffer&): the IsOpen() test; an empty buffer returns.
WriteCall(n) ==
    /\ Begin("Write")
    /\ numOfBytes' = n
    /\ ioInCall' = FALSE /\ popInCall' = FALSE
    /\ IF ~mIsOpen
       THEN Throw("NotOpen")
       ELSE IF n = 0
            THEN pc' = "ret" /\ err' = "ok"
            ELSE pc' = "wr_write" /\ err' = "none"
    /\ UNCHANGED <<objVars, osVars, msTimeout, lineTerminator, argValue,
                   locVars, sigVars, streamHist, lifeHist, pushedInTime>>
    /\ UNCHANGED bufVars

\* WriteByte: the IsOpen() test, then Write(&dataByte, 1).
WriteByteCall ==
    /\ Begin("WriteByte")
    /\ numOfBytes' = 1
    /\ ioInCall' = FALSE /\ popInCall' = FALSE
    /\ IF ~mIsOpen
       THEN Throw("NotOpen")
       ELSE pc' = "wr_write" /\ err' = "none"
    /\ UNCHANGED <<objVars, osVars, msTimeout, lineTerminator, argValue,
                   locVars, sigVars, streamHist, lifeHist, pushedInTime>>
    /\ UNCHANGED bufVars

\* Write(const unsigned char*, bufferSize): one turn of the loop around
\* write(), which is repeated while it fails with EAGAIN.
WrWrite ==
    /\ pc = "wr_write" /\ AppCanRun
    /\ ioInCall' = TRUE
    /\ \/ /\ CanFail /\ fails' = fails + 1
          /\ pc' = "wr_write"
          /\ UNCHANGED <<err, accepted>>
       \/ /\ CanFail /\ fails' = fails + 1
          /\ Throw("RuntimeError")
          /\ UNCHANGED accepted
       \/ /\ \E k \in 1..numOfBytes : accepted' = k
          /\ pc' = "ret" /\ err' = "ok"
          /\ fails' = fails
    /\ UNCHANGED <<objVars, devVars, attached, envVars, call, argVars, locVars,
                   sigVars, streamHist, lifeHist, popInCall, closedAtCall,
                   pushedInTime>>
    /\ UNCHANGED bufVars

(***************************************************************************)
(* The modem control lines.                                                *)
(***************************************************************************)
\* A SetModemControlLine that writes the whole set of lines (TIOCMSET)
\* when it raises a line.
ModemSetWritesAll(op, modemLine, lineState) ==
    /\ Begin(op)
    /\ argValue' = <<modemLine, lineState>>
    /\ popInCall' = FALSE
    /\ IF ~mIsOpen
       THEN /\ Throw("NotOpen")
            /\ ioInCall' = FALSE
            /\ UNCHANGED <<modemLines, fails, configured>>
       ELSE /\ ioInCall' = TRUE
            /\ \/ /\ CanFail /\ fails' = fails + 1
                  /\ Throw("RuntimeError")
                  /\ UNCHANGED <<modemLines, configured>>
               \/ /\ modemLines' = IF lineState
                                   THEN {modemLine}
                                   ELSE modemLines \ {modemLine}
                  /\ configured' = configured + 1
                  /\ pc' = "ret" /\ err' = "ok"
                  /\ fails' = fails
    /\ UNCHANGED <<objVars, osFds, devAttr, devBuf, attached, envVars,
                   msTimeout, numOfBytes, lineTerminator, locVars, sigVars,
                   streamHist, lastOk, snapAtOpen, restoreOk, pushedInTime>>
    /\ UNCHANGED bufVars

\* SetModemControlLine(modemLine, lineState): TIOCMBIS or TIOCMBIC.
ModemSet(op, modemLine, lineState) ==
    /\ Begin(op)
    /\ argValue' = <<modemLine, lineState>>
    /\ popInCall' = FALSE
    /\ IF ~mIsOpen
       THEN /\ Throw("NotOpen")
            /\ ioInCall' = FALSE
            /\ UNCHANGED <<modemLines, fails, configured>>
       ELSE /\ ioInCall' = TRUE
            /\ \/ /\ CanFail /\ fails' = fails + 1
                  /\ Throw("RuntimeError")
                  /\ UNCHANGED <<modemLines, configured>>
               \/ /\ modemLines' = IF lineState
                                   THEN modemLines \cup {modemLine}
                                   ELSE modemLines \ {modemLine}
                  /\ configured' = configured + 1
                  /\ pc' = "ret" /\ err' = "ok"
                  /\ fails' = fails
    /\ UNCHANGED <<objVars, osFds, devAttr, devBuf, attached, envVars,
                   msTimeout, numOfBytes, lineTerminator, locVars, sigVars,
                   streamHist, lastOk, snapAtOpen, restoreOk, pushedInTime>>
    /\ UNCHANGED bufVars

SetDtr == MayConfigure /\ \E b \in BOOLEAN : ModemSet("SetDtr", "TIOCM_DTR", b)
SetRts == MayConfigure /\ \E b \in BOOLEAN : ModemSet("SetRts", "TIOCM_RTS", b)

\* GetModemControlLine(modemLine): TIOCMGET.
ModemGet(op, modemLine) ==
    /\ Begin(op)
    /\ argValue' = modemLine
    /\ popInCall' = FALSE
    /\ IF ~mIsOpen
       THEN /\ Throw("NotOpen")
            /\ ioInCall' = FALSE
            /\ UNCHANGED <<fails, result>>
       ELSE /\ ioInCall' = TRUE
            /\ \/ /\ CanFail /\ fails' = fails + 1
                  /\ Throw("RuntimeError")
                  /\ UNCHANGED result
               \/ /\ result' = (modemLine \in modemLines)
                  /\ pc' = "ret" /\ err' = "ok"
                  /\ fails' = fails
    /\ UNCHANGED <<objVars, devVars, attached, envVars, msTimeout, numOfBytes,
                   lineTerminator, queueSize, entry_time, charBuffer,
                   dataBuffer, rl_entry_time, sigVars, streamHist, lifeHist,
                   pushedInTime>>
    /\ UNCHANGED bufVars

GetModemLine ==
    \/ ModemGet("GetDtr", "TIOCM_DTR")
    \/ ModemGet("GetRts", "TIOCM_RTS")
    \/ ModemGet("GetCts", "TIOCM_CTS")
    \/ ModemGet("GetDsr", "TIOCM_DSR")

(***************************************************************************)
(* Initial state: a handle just constructed, on a device nobody has open.  *)
(***************************************************************************)
NoFds == [d \in {} |-> OpenFlags]

Constructed ==
    /\ mIsOpen = FALSE /\ mFileDescriptor = -1
    /\ mOldPortSettings = ZeroTermios
    /\ mInputBuffer = <<>> /\ mShadowInputBuffer = <<>>
    /\ mQueueMutex = "free" /\ mIsQueueDataAvailable = FALSE
    /\ osFds = NoFds /\ devBuf = <<>> /\ modemLines = {}
    /\ attached = 0 /\ fails = 0 /\ sigPending = FALSE
    /\ sent = 0 /\ ticks = 0
    /\ pc = "idle" /\ call = "none" /\ err = "none"
    /\ msTimeout = NoTimeout /\ numOfBytes = 0 /\ lineTerminator = 0
    /\ argValue = "none"
    /\ queueSize = 0 /\ entry_time = NoTime /\ charBuffer = 0
    /\ dataBuffer = <<>> /\ rl_entry_time = NoTime /\ result = 0
    /\ hpc = "h_idle" /\ num_of_bytes_available = 0 /\ hi = 0
    /\ hread = <<>> /\ returned = <<>> /\ shadowed = {}
    /\ lastOk = "none" /\ snapAtOpen = ZeroTermios /\ restoreOk = FALSE
    /\ configured = 0
    /\ ioInCall = FALSE /\ popInCall = FALSE /\ closedAtCall = FALSE
    /\ accepted = 0 /\ pushedInTime = FALSE

\* SerialStreamBuf::Implementation::Implementation()
StreamConstructed ==
    /\ sbFileDescriptor = -1
    /\ mPutbackChar = 0 /\ mPutbackAvailable = FALSE
    /\ sbTaken = <<>> /\ sbLast = <<"none", 0>> /\ sbOpened = FALSE
    /\ pc2 = "idle" /\ queueSize2 = 0 /\ charBuffer2 = 0 /\ returned2 = <<>>
    /\ handledAtOpen = 0

(***************************************************************************)
(* Spec: the receive path.  One application thread opens and closes the    *)
(* port and reads bytes while SIGIO notifications interrupt it.            *)
(***************************************************************************)
Init ==
    /\ Constructed
    /\ StreamConstructed
    /\ devAttr = TtyCooked
    /\ now = 0
    /\ concurrent = FALSE

Open == OpenCall \/ OpenAttach \/ OpenSetOwn \/ OpenSetFl \/ OpenGetAttr
          \/ OpenFlush \/ OpenSetAttr \/ OpenResetFlag

Close == CloseCall \/ CloseRestore \/ CloseFd

ReadByte == ReadByteCall(NoTimeout) \/ ReadByteSteps

Next == Open \/ Close \/ ReadByte \/ Return \/ Handler \/ Arrive \/ Signal

Spec == Init /\ [][Next]_vars

\* The state in which Open has succeeded on a device with settings saved,
\* the bytes of queue (if any) have arrived and the handler has read them.
\* These are reachable states of Spec.
OpenedWith(queue, saved) ==
    /\ mIsOpen = TRUE /\ mFileDescriptor = 3
    /\ mOldPortSettings = saved
    /\ mInputBuffer = queue /\ mShadowInputBuffer = <<>>
    /\ mQueueMutex = "free" /\ mIsQueueDataAvailable = (queue # <<>>)
    /\ osFds = [d \in {3} |-> [SetFlAsync(OpenFlags) EXCEPT !.owner = TRUE]]
    /\ devAttr = OpenPortSettings
    /\ devBuf = <<>> /\ modemLines = {}
    /\ attached = 1 /\ fails = 0 /\ sigPending = FALSE
    /\ sent = Len(queue) /\ ticks = 0
    /\ pc = "idle" /\ call = "none" /\ err = "none"
    /\ msTimeout = NoTimeout /\ numOfBytes = 0 /\ lineTerminator = 0
    /\ argValue = "none"
    /\ queueSize = 0 /\ entry_time = NoTime /\ charBuffer = 0
    /\ dataBuffer = <<>> /\ rl_entry_time = NoTime /\ result = 0
    /\ hpc = "h_idle" /\ num_of_bytes_available = 0 /\ hi = 0
    /\ hread = queue /\ returned = <<>> /\ shadowed = {}
    /\ lastOk = "Open" /\ snapAtOpen = saved /\ restoreOk = FALSE
    /\ configured = 0
    /\ ioInCall = FALSE /\ popInCall = FALSE /\ closedAtCall = FALSE
    /\ accepted = 0 /\ pushedInTime = FALSE

(***************************************************************************)
(* SpecRead: a reader that opens the port and then keeps calling           *)
(* ReadByte(0), interrupted by notifications.  In FairSpec the reader and  *)
(* the handler are scheduled fairly; nothing is assumed about the arrival  *)
(* of data or of further notifications.                                    *)
(***************************************************************************)
ReaderOpens == ~mIsOpen /\ OpenCall
ReaderReads == mIsOpen /\ ReadByteCall(NoTimeout)

Reader == ReaderOpens \/ OpenAttach \/ OpenSetOwn \/ OpenSetFl \/ OpenGetAttr
            \/ OpenFlush \/ OpenSetAttr \/ OpenResetFlag
            \/ ReaderReads \/ ReadByteSteps \/ Return

ReadNext == Reader \/ Handler \/ Arrive \/ Signal

SpecRead == Init /\ [][ReadNext]_vars

\* The handler interrupts the reader, which is then not enabled: strong
\* fairness says that notifications do not keep the reader from running
\* for ever.  A behaviour that is fair in this sense is also weakly fair.
FairSpec == SpecRead /\ SF_vars(Reader) /\ WF_vars(Handler)

(***************************************************************************)
(* SpecTime: ReadByte and ReadLine with a deadline, on a port that is open *)
(* and then closed, while the clock advances.                              *)
(***************************************************************************)
\* The clock at the beginning: at a whole second, and just before one.
StartTimes == {0, 999500}

\* The values of msTimeout: none, 1 ms, 2 ms and 2^31 ms.
Timeouts == {UInt(0, 0), UInt(0, 1), UInt(0, 2), UInt(1, 0)}

TimeInit ==
    /\ OpenedWith(<<>>, TtyCooked)
    /\ StreamConstructed
    /\ now \in StartTimes
    /\ concurrent = FALSE

TimedReadByte == \E timeout \in Timeouts : ReadByteCall(timeout)

TimedReadLine == \E timeout \in Timeouts : ReadLineCall(timeout, 1)

TimeNext == TimedReadByte \/ ReadByteSteps \/ TimedReadLine \/ RLTime
              \/ Close \/ Return \/ Handler \/ Arrive \/ Tick

SpecTime == TimeInit /\ [][TimeNext]_vars

(***************************************************************************)
(* SpecLife: one thread opens, configures and closes the port, in any      *)
(* order, while OS calls may fail.                                         *)
(***************************************************************************)
ReceivedQueues == {<<1>>}

ApiInit ==
    /\ \/ Constructed /\ devAttr = TtyCooked
       \/ \E q \in ReceivedQueues : OpenedWith(q, TtyCooked)
    /\ StreamConstructed
    /\ now = 0
    /\ concurrent = FALSE

Configure == SetBaudRate \/ SetCharSize \/ SetParity \/ SetNumOfStopBits
               \/ SetFlowControl \/ SetDtr \/ SetRts

LifeNext == Open \/ Close \/ Return \/ Configure

SpecLife == ApiInit /\ [][LifeNext]_vars

(***************************************************************************)
(* SpecApi: the whole Handle API called in any order by one thread, on a   *)
(* port that is closed or open, with or without bytes in mInputBuffer.     *)
(***************************************************************************)
\* The value each setter is called with.
ApiSetterArg(op) ==
    CASE op = "SetBaudRate" -> "B115200"
      [] op = "SetCharSize" -> "CS8"
      [] op = "SetParity" -> "PARITY_ODD"
      [] op = "SetNumOfStopBits" -> "STOP_BITS_2"
      [] op = "SetFlowControl" -> "FLOW_CONTROL_HARD"

ApiSetAttribute ==
    MayConfigure /\ \E op \in Setters : ConfigSet(op, ApiSetterArg(op))

ApiSetModemLine ==
    /\ MayConfigure
    /\ \/ ModemSet("SetDtr", "TIOCM_DTR", TRUE)
       \/ ModemSet("SetRts", "TIOCM_RTS", TRUE)

ApiReadByte == ReadByteCall(NoTimeout)
ApiRead == \E n \in 0..1 : ReadCall(n, NoTimeout)
ApiReadLine == \E t \in 1..2 : ReadLineCall(NoTimeout, t)
ApiWrite == \E n \in {0, 2} : WriteCall(n)

ApiNext == Open \/ Close \/ Return
             \/ ApiSetAttribute \/ GetAttribute \/ IsDataAvailableCall
             \/ ApiReadByte \/ ReadByteSteps \/ ApiRead \/ ReadLoop
             \/ ApiReadLine \/ RLTime
             \/ ApiWrite \/ WriteByteCall \/ WrWrite
             \/ ApiSetModemLine \/ GetModemLine

SpecApi == ApiInit /\ [][ApiNext]_vars

(***************************************************************************)
(* SpecBulk: Read of a given number of bytes and ReadLine, with and        *)
(* without a deadline, on a port that receives bytes while the reader      *)
(* sleeps, and that is closed in the end.                                  *)
(***************************************************************************)
\* The values of msTimeout: none, and 1 ms.
BulkTimeouts == {UInt(0, 0), UInt(0, 1)}

BulkInit ==
    /\ OpenedWith(<<>>, TtyCooked)
    /\ StreamConstructed
    /\ now = 0
    /\ concurrent = FALSE

BulkRead ==
    \E n \in 1..MaxBytes, timeout \in BulkTimeouts : ReadCall(n, timeout)

BulkReadLine ==
    \E timeout \in BulkTimeouts, t \in 1..MaxBytes : ReadLineCall(timeout, t)

\* usleep(MICROSECONDS_PER_MS) of a ReadByte that has a deadline takes its
\* millisecond.
BulkTick ==
    /\ pc = "rb_sleep" /\ IsPositive(msTimeout)
    /\ Tick
    /\ now' = now + MICROSECONDS_PER_MS

BulkNext == BulkRead \/ ReadLoop \/ BulkReadLine \/ RLTime \/ ReadByteSteps
              \/ Close \/ Return \/ Handler \/ Arrive \/ BulkTick

SpecBulk == BulkInit /\ [][BulkNext]_vars

(***************************************************************************)
(* SpecDrain: Read with numOfBytes = 0, which takes what is queued, on an  *)
(* open port that receives bytes and notifications, some of which announce *)
(* no input.                                                               *)
(***************************************************************************)
DrainRead == \E timeout \in BulkTimeouts : ReadCall(0, timeout)

DrainNext == DrainRead \/ ReadLoop \/ ReadByteSteps \/ Return \/ Handler
               \/ Arrive \/ Signal \/ BulkTick

SpecDrain == BulkInit /\ [][DrainNext]_vars

(***************************************************************************)
(* SpecStream: the attribute setters and getters of the stream buffer,     *)
(* called in any order with every value of their tests, while another      *)
(* process may change the attributes between the calls.                    *)
(* SpecAttr: the setters and getters of both APIs, called in any order on  *)
(* one device that a SerialStreamBuf and a SerialPort have open.           *)
(***************************************************************************)
\* Attributes with different input and output speeds and with software
\* flow control.
TtySplitSpeed ==
    [TtyCooked EXCEPT !.c_iflag = {"IXON", "IXOFF"}, !.ospeed = "B19200"]

\* Attributes with XON and XOFF enabled, other start and stop characters,
\* and hardware flow control.
TtyOtherCodes ==
    [TtyCooked EXCEPT !.c_iflag = {"IXON", "IXOFF", "ISTRIP"},
                      !.c_cflag = {"CREAD", "CRTSCTS"},
                      !.c_cc = [@ EXCEPT !.VSTART = 1]]

\* Another process that has the device open (stty, for one) writes its
\* attributes, between two calls of the application.
ForeignSetAttr ==
    /\ pc = "idle" /\ hpc = "h_idle"
    /\ \E t \in {TtyCooked, TtySplitSpeed, TtyOtherCodes} : devAttr' = t
    /\ devAttr' # devAttr
    /\ UNCHANGED <<objVars, bufVars, osFds, devBuf, modemLines, attached,
                   fails, envVars, appVars, sigVars, histVars>>

\* The stream buffer was opened first (descriptor 3, its O_NONBLOCK set
\* and cleared again), the attributes were then TtyCooked, and the
\* SerialPort was opened after it (descriptor 4).
AttrInit ==
    /\ sbFileDescriptor = 3
    /\ mPutbackChar = 0 /\ mPutbackAvailable = FALSE
    /\ sbTaken = <<>> /\ sbLast = <<"none", 0>> /\ sbOpened = TRUE
    /\ pc2 = "idle" /\ queueSize2 = 0 /\ charBuffer2 = 0 /\ returned2 = <<>>
    /\ handledAtOpen = 0
    /\ mIsOpen = TRUE /\ mFileDescriptor = 4
    /\ mOldPortSettings = TtyCooked
    /\ mInputBuffer = <<>> /\ mShadowInputBuffer = <<>>
    /\ mQueueMutex = "free" /\ mIsQueueDataAvailable = FALSE
    /\ osFds = [d \in {3, 4} |->
                  IF d = 3 THEN [nonblock |-> FALSE, async |-> FALSE,
                                 owner |-> FALSE]
                  ELSE [SetFlAsync(OpenFlags) EXCEPT !.owner = TRUE]]
    /\ devAttr = OpenPortSettings
    /\ devBuf = <<>> /\ modemLines = {}
    /\ attached = 1 /\ fails = 0 /\ sigPending = FALSE
    /\ sent = 0 /\ ticks = 0 /\ now = 0 /\ concurrent = FALSE
    /\ pc = "idle" /\ call = "none" /\ err = "none"
    /\ msTimeout = NoTimeout /\ numOfBytes = 0 /\ lineTerminator = 0
    /\ argValue = "none"
    /\ queueSize = 0 /\ entry_time = NoTime /\ charBuffer = 0
    /\ dataBuffer = <<>> /\ rl_entry_time = NoTime /\ result = 0
    /\ hpc = "h_idle" /\ num_of_bytes_available = 0 /\ hi = 0
    /\ hread = <<>> /\ returned = <<>> /\ shadowed = {}
    /\ lastOk = "Open" /\ snapAtOpen = TtyCooked /\ restoreOk = FALSE
    /\ configured = 0
    /\ ioInCall = FALSE /\ popInCall = FALSE /\ closedAtCall = FALSE
    /\ accepted = 0 /\ pushedInTime = FALSE

\* The values the setters of the Stream API are called with.
StreamSetterArgs(op) ==
    CASE op = "SerialStreamBuf::SetBaudRate" -> StreamBaudRates \cup {"B230400"}
      [] op = "SerialStreamBuf::SetCharSize" -> {"CS5", "CS6", "CS7", "CS8"}
      [] op = "SerialStreamBuf::SetNumOfStopBits" -> {1, 2, 3}
      [] op = "SerialStreamBuf::SetParity" ->
           {"PARITY_EVEN", "PARITY_ODD", "PARITY_NONE", "PARITY_INVALID"}
      [] op = "SerialStreamBuf::SetFlowControl" ->
           {"FLOW_CONTROL_HARD", "FLOW_CONTROL_SOFT", "FLOW_CONTROL_NONE"}

StreamSetAttribute ==
    \E op \in StreamSetters : \E v \in StreamSetterArgs(op) : StreamSet(op, v)

StreamGetAttribute == \E op \in StreamGetters : StreamGet(op)

StreamNext == StreamSetAttribute \/ StreamGetAttribute \/ ForeignSetAttr
                \/ Return

SpecStream == AttrInit /\ [][StreamNext]_vars

\* The values SetVMin and SetVTime are called with.
CcArgs == {-1, 0, 2, 256}

SetCc == \E op \in CcSetters : \E v \in CcArgs : StreamSetCc(op, v)

GetCc == \E op \in CcGetters : StreamGet(op)

\* The values the stream buffer's setters are called with next to the
\* setters of the SerialPort.
MixedSetterArgs(op) ==
    CASE op = "SerialStreamBuf::SetBaudRate" -> {"B9600", "B230400"}
      [] op = "SerialStreamBuf::SetCharSize" -> {"CS7", "CS8"}
      [] op = "SerialStreamBuf::SetNumOfStopBits" -> {2, 3}
      [] op = "SerialStreamBuf::SetParity" -> {"PARITY_ODD", "PARITY_INVALID"}
      [] op = "SerialStreamBuf::SetFlowControl" ->
           {"FLOW_CONTROL_HARD", "FLOW_CONTROL_SOFT", "FLOW_CONTROL_INVALID"}

MixedSetAttribute ==
    \E op \in StreamSetters : \E v \in MixedSetterArgs(op) : StreamSet(op, v)

AttrNext == MixedSetAttribute \/ StreamGetAttribute
              \/ SetBaudRate \/ SetCharSize \/ SetParity \/ SetNumOfStopBits
              \/ SetFlowControl \/ GetAttribute
              \/ ForeignSetAttr \/ Return

SpecAttr == AttrInit /\ [][AttrNext]_vars

UnperformedSetAttribute ==
    \E op \in StreamSetters : \E v \in MixedSetterArgs(op) :
        StreamSetUnperformed(op, v)

\* The seven setters and getters of the stream buffer on a device whose
\* driver may leave an attribute as it was.
CcNext == MixedSetAttribute \/ UnperformedSetAttribute \/ StreamGetAttribute
            \/ SetCc \/ GetCc \/ ForeignSetAttr \/ Return

SpecCc == AttrInit /\ [][CcNext]_vars

(***************************************************************************)
(* SpecPull: a stream buffer that is open and is read one character at a   *)
(* time (showmanyc, underflow, uflow) while the peer sends bytes.          *)
(* SpecPutback: the same with pbackfail.                                   *)
(* SpecInput: the whole input side and the life cycle of the stream        *)
(* buffer, called in any order.                                            *)
(***************************************************************************)
\* A SerialStreamBuf that open() has just opened, on a device nobody else
\* has open; the SerialPort object is not used.
InputInit ==
    /\ sbFileDescriptor = 3
    /\ mPutbackChar = 0 /\ mPutbackAvailable = FALSE
    /\ sbTaken = <<>> /\ sbLast = <<"none", 0>> /\ sbOpened = TRUE
    /\ pc2 = "idle" /\ queueSize2 = 0 /\ charBuffer2 = 0 /\ returned2 = <<>>
    /\ handledAtOpen = 0
    /\ mIsOpen = FALSE /\ mFileDescriptor = -1
    /\ mOldPortSettings = ZeroTermios
    /\ mInputBuffer = <<>> /\ mShadowInputBuffer = <<>>
    /\ mQueueMutex = "free" /\ mIsQueueDataAvailable = FALSE
    /\ osFds = [d \in {3} |-> StreamOpenFlags]
    /\ devAttr = StreamDefaultSettings
    /\ devBuf = <<>> /\ modemLines = {}
    /\ attached = 0 /\ fails = 0 /\ sigPending = FALSE
    /\ sent = 0 /\ ticks = 0 /\ now = 0 /\ concurrent = FALSE
    /\ pc = "idle" /\ call = "none" /\ err = "none"
    /\ msTimeout = NoTimeout /\ numOfBytes = 0 /\ lineTerminator = 0
    /\ argValue = "none"
    /\ queueSize = 0 /\ entry_time = NoTime /\ charBuffer = 0
    /\ dataBuffer = <<>> /\ rl_entry_time = NoTime /\ result = 0
    /\ hpc = "h_idle" /\ num_of_bytes_available = 0 /\ hi = 0
    /\ hread = <<>> /\ returned = <<>> /\ shadowed = {}
    /\ lastOk = "none" /\ snapAtOpen = ZeroTermios /\ restoreOk = FALSE
    /\ configured = 0
    /\ ioInCall = FALSE /\ popInCall = FALSE /\ closedAtCall = FALSE
    /\ accepted = 0 /\ pushedInTime = FALSE

PullNext == showmanyc \/ underflow \/ uflow \/ Arrive \/ Return

SpecPull == InputInit /\ [][PullNext]_vars

\* The characters given to pbackfail: the end marker, and characters with
\* and without the high bit.
PutbackArgs == {Eof, 7, 255}

Unget == Len(sbTaken) < MaxTaken /\ \E c \in PutbackArgs : pbackfail(c)

PutbackNext == Unget \/ showmanyc \/ underflow \/ uflow \/ Arrive \/ Return

SpecPutback == InputInit /\ [][PutbackNext]_vars

PullMany == \E n \in 0..MaxBytes : xsgetn(n)

StreamReopen == \E mode \in {"in|out", "in|app"} : StreamOpen(mode)

\* The attribute calls made next to the input calls.
InputSetAttribute ==
    \/ StreamSet("SerialStreamBuf::SetBaudRate", "B9600")
    \/ StreamSet("SerialStreamBuf::SetNumOfStopBits", 2)

InputGetAttribute ==
    \/ StreamGet("SerialStreamBuf::GetBaudRate")
    \/ StreamGet("SerialStreamBuf::GetNumOfStopBits")

InputNext == showmanyc \/ underflow \/ uflow \/ Unget \/ PullMany
               \/ StreamReopen \/ StreamClose
               \/ InputSetAttribute \/ InputGetAttribute
               \/ Arrive \/ Return

SpecInput == InputInit /\ [][InputNext]_vars

(***************************************************************************)
(* SpecThreads: the behaviours of Spec when SIGIO is handled on a thread   *)
(* other than the one that calls the SerialPort, so that the handler and   *)
(* the caller take turns at any step.                                      *)
(***************************************************************************)
ThreadsInit ==
    /\ Constructed
    /\ StreamConstructed
    /\ devAttr = TtyCooked
    /\ now = 0
    /\ concurrent = TRUE

SpecThreads == ThreadsInit /\ [][Next]_vars

(***************************************************************************)
(* SpecReaders: two application threads call ReadByte(charBuffer, 0) on    *)
(* the same open port, again and again, while bytes arrive and the         *)
(* handler, on a thread of its own, queues them.                           *)
(***************************************************************************)
ReadersInit ==
    /\ OpenedWith(<<>>, TtyCooked)
    /\ StreamConstructed
    /\ now = 0
    /\ concurrent = TRUE

ReadersNext == ReadByte \/ Return \/ OtherReadByte \/ Handler \/ Arrive

SpecReaders == ReadersInit /\ [][ReadersNext]_vars

(***************************************************************************)
(* SpecModem: one thread sets and reads the modem control lines of an open *)
(* port while the peer drives CTS and DSR.                                 *)
(***************************************************************************)
ModemInit ==
    /\ OpenedWith(<<>>, TtyCooked)
    /\ StreamConstructed
    /\ now = 0
    /\ concurrent = FALSE

\* The peer raises or drops one of the lines it drives.
PeerLine ==
    /\ \E l \in {"TIOCM_CTS", "TIOCM_DSR"} :
         modemLines' \in {modemLines \cup {l}, modemLines \ {l}}
    /\ modemLines' # modemLines
    /\ UNCHANGED <<objVars, osFds, devAttr, devBuf, attached, fails, envVars,
                   appVars, sigVars, histVars>>
    /\ UNCHANGED bufVars

SetModemLine ==
    /\ configured < MaxModemCalls
    /\ \E b \in BOOLEAN : \/ ModemSet("SetDtr", "TIOCM_DTR", b)
                          \/ ModemSet("SetRts", "TIOCM_RTS", b)

ModemNext == SetModemLine \/ GetModemLine \/ PeerLine \/ Return

SpecModem == ModemInit /\ [][ModemNext]_vars

(***************************************************************************)
(* Properties of the receive path (Spec).                                  *)
(***************************************************************************)
IsPrefix(p, q) == Len(p) <= Len(q) /\ p = SubSeq(q, 1, Len(p))

\* C1: the bytes returned so far by ReadByte are a prefix of the bytes the
\* notification handler has read from the descriptor, in the same order,
\* in every interleaving of notifications with the reader, the ones that
\* find the lock held and use the shadow queue included.
OrderPreserved == IsPrefix(returned, hread)

\* C1 happens: two bytes have been returned, one of which went through the
\* shadow queue.
OrderPreservedWitness ==
    /\ Len(returned) >= 2
    /\ \E i \in 1..Len(returned) : returned[i] \in shadowed

\* No context is inside a critical section of the queue.
QueueQuiescent ==
    /\ mQueueMutex = "free"
    /\ hpc = "h_idle"
    /\ pc \in {"idle", "ret"}

\* C5: whenever no context is inside a queue critical section, the
\* data-available flag of an open port is set exactly when mInputBuffer is
\* not empty.
FlagMirrorsQueue ==
    (mIsOpen /\ QueueQuiescent) =>
        (mIsQueueDataAvailable <=> (mInputBuffer # <<>>))

\* C9: between calls the handler is attached to the dispatcher exactly
\* when the port is open, and never more than once.
AttachedIffOpen ==
    (pc = "idle") => (((attached > 0) <=> mIsOpen) /\ attached <= 1)

(***************************************************************************)
(* Properties of the reader (SpecRead, FairSpec).                          *)
(***************************************************************************)
\* C2: every byte the handler has read from the descriptor, into either
\* queue, is eventually returned by ReadByte to a reader that keeps calling
\* ReadByte(0), when the reader and the handler are scheduled fairly.
NoByteDropped ==
    \A i \in 1..MaxBytes : (Len(hread) >= i) ~> (Len(returned) >= i)

\* The bytes the handler put into mInputBuffer (not the shadow queue) are
\* eventually returned.
QueuedByteReturned ==
    \A i \in 1..MaxBytes :
        (Len(hread) - Len(mShadowInputBuffer) >= i) ~> (Len(returned) >= i)

(***************************************************************************)
(* Properties of the deadline (SpecTime).                                  *)
(***************************************************************************)
ReadByteTimedOut == pc = "ret" /\ call = "ReadByte" /\ err = "ReadTimeout"

\* The deadline is a value of int (the values beyond are the matter of C4).
WithinInt == msTimeout.hi = 0

\* C3: ReadByte with a deadline does not end with ReadTimeout when a byte
\* was appended to mInputBuffer before the deadline.
ArrivalBeatsTimeout == (ReadByteTimedOut /\ WithinInt) => ~pushedInTime

\* C4: ReadByte ends with ReadTimeout only for msTimeout > 0 and only when
\* at least msTimeout milliseconds have passed since its entry time.
TimeoutNotEarly ==
    ReadByteTimedOut => (IsPositive(msTimeout) /\ ~BeforeDeadline)

\* The same for the values of msTimeout that fit into an int; this part of
\* C4 holds, across a change of second as well, and ReadByte(0) never ends
\* with ReadTimeout.
TimeoutNotEarlyWithinInt ==
    (ReadByteTimedOut /\ WithinInt) =>
        (IsPositive(msTimeout) /\ ~BeforeDeadline)

\* C8: a call other than Open that begins on a port that is not open ends
\* with NotOpen, without I/O on the device and without a byte removed from
\* mInputBuffer.  (It holds in SpecApi, where no call has a deadline.)
ClosedPortRejects ==
    (pc = "ret" /\ closedAtCall /\ call # "Open" /\ WithinInt) =>
        (err = "NotOpen" /\ ~ioInCall /\ ~popInCall)

(***************************************************************************)
(* Properties of the life cycle (SpecLife).                                *)
(***************************************************************************)
\* C6: between the steps of a call, the port is open exactly when the last
\* of Open and Close to succeed was Open; an Open that fails at a step of
\* the OS leaves it closed, and so does every Close.
LifecycleIsOpen ==
    /\ (pc \in {"idle", "ret"}) => (mIsOpen <=> (lastOk = "Open"))
    /\ (pc = "ret" /\ call = "Open" /\ err = "OpenFailed") => ~mIsOpen
    /\ (pc = "ret" /\ call = "Close") => ~mIsOpen

\* C6 happens: an Open fails after it obtained the descriptor, on a port
\* that was open and closed before.
LifecycleIsOpenWitness ==
    /\ pc = "ret" /\ call = "Open" /\ err = "OpenFailed"
    /\ lastOk = "Close" /\ FdValid

\* What a rejected Open or Close must leave alone.
keptVars == <<mIsOpen, mFileDescriptor, osFds, mOldPortSettings, attached,
              mInputBuffer, mShadowInputBuffer>>

\* C7: Open on an open port ends with AlreadyOpen and Close on a port that
\* is not open ends with NotOpen, and both leave the descriptor, the saved
\* settings, the registration of the handler and the queues as they were.
RejectedCallChangesNothing ==
    [][/\ (pc = "idle" /\ call' = "Open" /\ mIsOpen) =>
            (pc' = "ret" /\ err' = "AlreadyOpen" /\ UNCHANGED keptVars)
       /\ (pc = "idle" /\ call' = "Close" /\ ~mIsOpen) =>
            (pc' = "ret" /\ err' = "NotOpen" /\ UNCHANGED keptVars)]_vars

\* C7 happens: the second of two Close calls has ended with NotOpen, a byte
\* still in mInputBuffer.
RejectedCallWitness ==
    /\ pc = "ret" /\ call = "Close" /\ err = "NotOpen"
    /\ lastOk = "Close" /\ mInputBuffer # <<>>

\* C10: a Close that begins on an open port ends with the descriptor
\* closed and the port not open, whether or not tcsetattr worked, and when
\* it worked the device has the settings that the Open before saved.
CloseRestores ==
    (pc = "ret" /\ call = "Close" /\ ~closedAtCall) =>
        /\ err = "ok"
        /\ ~mIsOpen
        /\ ~FdValid
        /\ restoreOk => devAttr = snapAtOpen

\* C10 happens: a Close has restored the settings after a setter changed
\* them.
CloseRestoresWitness ==
    /\ pc = "ret" /\ call = "Close" /\ err = "ok"
    /\ restoreOk /\ configured > 0
    /\ devAttr = snapAtOpen /\ devAttr # OpenPortSettings

(***************************************************************************)
(* Properties of Read and ReadLine (SpecBulk).                             *)
(***************************************************************************)
\* The bytes the call in progress has taken: the last Len(dataBuffer) of
\* the bytes that the handler read and ReadByte has returned.
TakenByCall ==
    SubSeq(hread, Len(returned) - Len(dataBuffer) + 1, Len(returned))

\* The bytes read from the device and not returned yet are the bytes of
\* the two queues, in the order of their arrival.
RestStaysQueued == hread = returned \o mInputBuffer \o mShadowInputBuffer

\* C11: Read of numOfBytes > 0 bytes ends with ReadTimeout or NotOpen, or it
\* returns numOfBytes, never less, with dataBuffer holding the next
\* numOfBytes bytes of the queue in their order, and these bytes are gone
\* from the queue while the ones behind them stay.
ReadReturnsCount ==
    (pc = "ret" /\ call = "Read" /\ numOfBytes > 0) =>
        \/ err \in {"ReadTimeout", "NotOpen"}
        \/ /\ err = "ok"
           /\ result = numOfBytes
           /\ Len(dataBuffer) = numOfBytes
           /\ dataBuffer = TakenByCall
           /\ RestStaysQueued

\* C11 happens: Read has returned two bytes, one of which went through the
\* shadow queue, after an earlier call ran into its deadline.
ReadReturnsCountWitness ==
    /\ pc = "ret" /\ call = "Read" /\ err = "ok"
    /\ result = 2 /\ ticks > 0
    /\ \E i \in 1..Len(dataBuffer) : dataBuffer[i] \in shadowed

\* C12: a ReadLine that returns has taken the queued bytes up to and
\* including the first terminator, returns their number, and leaves the
\* bytes behind the terminator in the queue in their order.
ReadLineReturnsLine ==
    (pc = "ret" /\ call = "ReadLine" /\ err = "ok") =>
        /\ dataBuffer # <<>>
        /\ dataBuffer[Len(dataBuffer)] = lineTerminator
        /\ \A i \in 1..(Len(dataBuffer) - 1) : dataBuffer[i] # lineTerminator
        /\ result = Len(dataBuffer)
        /\ dataBuffer = TakenByCall
        /\ RestStaysQueued

\* C12 happens: ReadLine has returned a line while a byte that arrived
\* behind the terminator is still in mInputBuffer.
ReadLineReturnsLineWitness ==
    /\ pc = "ret" /\ call = "ReadLine" /\ err = "ok"
    /\ mInputBuffer # <<>>
    /\ Head(mInputBuffer) > lineTerminator

\* The entry time of ReadLine, in microseconds.
LineEntryMicros ==
    rl_entry_time.tv_sec * MICROSECONDS_PER_SECOND + rl_entry_time.tv_usec

\* C13: a ReadLine with a deadline waits for a byte under one deadline
\* measured from its own entry time, also after it has read bytes: the
\* wait it is in ends no later than one poll interval (1 ms) after
\* msTimeout milliseconds from the entry of ReadLine, that is, the entry
\* time the wait is measured from is at most one poll interval after
\* ReadLine's.
LineDeadlineOverall ==
    (call = "ReadLine" /\ pc \in RBWaiting /\ dataBuffer # <<>>
        /\ IsPositive(msTimeout) /\ WithinInt) =>
        EntryMicros - LineEntryMicros <= MICROSECONDS_PER_MS

(***************************************************************************)
(* Properties of Read with numOfBytes = 0 (SpecDrain).                     *)
(***************************************************************************)
\* C14: Read with numOfBytes = 0 takes the bytes that are queued and
\* returns: it is never waiting in ReadByte for a byte that is not in
\* mInputBuffer, and it never ends with ReadTimeout, whatever msTimeout is
\* and whatever notifications came before.
DrainNeverWaits ==
    (call = "Read" /\ numOfBytes = 0 /\ WithinInt) =>
        /\ pc \notin RBWaiting
        /\ ~(pc = "ret" /\ err = "ReadTimeout")

\* The part of C14 that ends in an exception: Read with numOfBytes = 0
\* never ends with ReadTimeout.
DrainNeverTimesOut ==
    (call = "Read" /\ numOfBytes = 0 /\ WithinInt) =>
        ~(pc = "ret" /\ err = "ReadTimeout")

(***************************************************************************)
(* Properties of Write (SpecApi).                                          *)
(***************************************************************************)
\* C15: a Write or WriteByte on an open port that returns normally has had
\* all numOfBytes bytes of its buffer accepted by the OS.
WriteAcceptsAll ==
    (pc = "ret" /\ call \in {"Write", "WriteByte"} /\ err = "ok"
        /\ ~closedAtCall) =>
        accepted = numOfBytes

\* The rest of C15: write() is issued again only after it failed with
\* EAGAIN, and a Write that ends without all bytes accepted and without an
\* exception has had some of them accepted (a short count of write()).
WriteRetriesOnlyOnAgain ==
    /\ [][(pc = "wr_write" /\ pc' = "wr_write") => fails' = fails + 1]_vars
    /\ [](pc = "ret" /\ call \in {"Write", "WriteByte"} /\ ~closedAtCall
            /\ numOfBytes > 0
          => (err = "RuntimeError" /\ accepted = 0)
               \/ (err = "ok" /\ accepted \in 1..numOfBytes))

GetterOf(op) ==
    CASE op = "SetBaudRate" -> "GetBaudRate"
      [] op = "SetCharSize" -> "GetCharSize"
      [] op = "SetParity" -> "GetParity"
      [] op = "SetNumOfStopBits" -> "GetNumOfStopBits"
      [] op = "SetFlowControl" -> "GetFlowControl"

\* The values of BaudRate, CharacterSize, Parity, StopBits and FlowControl.
RoundTripValues(op) ==
    CASE op = "SetBaudRate" -> SupportedSpeeds \ {"B0"}
      [] op = "SetCharSize" -> {"CS5", "CS6", "CS7", "CS8"}
      [] op = "SetParity" -> {"PARITY_EVEN", "PARITY_ODD", "PARITY_NONE"}
      [] op = "SetNumOfStopBits" -> {"STOP_BITS_1", "STOP_BITS_2"}
      [] op = "SetFlowControl" ->
           {"FLOW_CONTROL_NONE", "FLOW_CONTROL_HARD", "FLOW_CONTROL_SOFT"}

\* C17: on an open SerialPort, a setter called with a value of BaudRate,
\* CharacterSize, Parity (even, odd, none), StopBits (1, 2) or FlowControl
\* (none, hardware, software) whose OS calls all succeed returns normally,
\* and the getter then derives the same value from the attributes of the
\* device.
PortRoundTrip ==
    (/\ pc = "ret" /\ call \in Setters /\ ~closedAtCall
     /\ argValue \in RoundTripValues(call)
     /\ fails = 0)
    => /\ err = "ok"
       /\ GetterValue(GetterOf(call), devAttr) = argValue

\* The setter or getter of the stream buffer for the attribute of a setter
\* or getter of the SerialPort.
StreamCounterpart(op) ==
    CASE op = "SetBaudRate" -> "SerialStreamBuf::SetBaudRate"
      [] op = "SetCharSize" -> "SerialStreamBuf::SetCharSize"
      [] op = "SetParity" -> "SerialStreamBuf::SetParity"
      [] op = "SetNumOfStopBits" -> "SerialStreamBuf::SetNumOfStopBits"
      [] op = "SetFlowControl" -> "SerialStreamBuf::SetFlowControl"
      [] op = "GetBaudRate" -> "SerialStreamBuf::GetBaudRate"
      [] op = "GetCharSize" -> "SerialStreamBuf::GetCharSize"
      [] op = "GetParity" -> "SerialStreamBuf::GetParity"
      [] op = "GetNumOfStopBits" -> "SerialStreamBuf::GetNumOfStopBits"
      [] op = "GetFlowControl" -> "SerialStreamBuf::GetFlowControl"

\* The value of the stream buffer for a value of the SerialPort: the stream
\* buffer counts the stop bits.
StreamValue(v) ==
    CASE v = "STOP_BITS_1" -> 1
      [] v = "STOP_BITS_2" -> 2
      [] OTHER -> v

\* C18: a setter of the SerialPort that returns normally leaves the
\* attributes that the setter of the stream buffer would have left for the
\* same setting, and a getter of the SerialPort that returns normally returns
\* the value that the getter of the stream buffer derives from the same
\* attributes.
SameAttributeMapping ==
    [][/\ (/\ pc = "idle" /\ pc' = "ret" /\ call' \in Setters /\ err' = "ok"
           /\ StreamSetterAccepts(StreamCounterpart(call'),
                                  StreamValue(argValue')))
          => devAttr' = StreamSetterBits(StreamCounterpart(call'), devAttr,
                                         StreamValue(argValue'))
       /\ (pc = "idle" /\ pc' = "ret" /\ call' \in Getters /\ err' = "ok")
          => StreamValue(result') =
               StreamGetterValue(StreamCounterpart(call'), devAttr)]_vars

\* C19: a flow-control getter of either API whose OS calls succeed returns
\* software flow control exactly when IXON and IXOFF are both set and the
\* start and stop characters are ^Q and ^S; otherwise, when neither IXON nor
\* IXOFF is set, hardware flow control if CRTSCTS is set and none if it is
\* clear; and Invalid for every other combination.
FlowControlClassified ==
    LET t == devAttr
        xon == "IXON" \in t.c_iflag
        xoff == "IXOFF" \in t.c_iflag
        class ==
            IF xon /\ xoff /\ t.c_cc.VSTART = CTRL_Q /\ t.c_cc.VSTOP = CTRL_S
            THEN "FLOW_CONTROL_SOFT"
            ELSE IF ~xon /\ ~xoff
                 THEN IF "CRTSCTS" \in t.c_cflag
                      THEN "FLOW_CONTROL_HARD" ELSE "FLOW_CONTROL_NONE"
                 ELSE "FLOW_CONTROL_INVALID"
    IN (/\ pc = "ret"
        /\ call \in {"GetFlowControl", "SerialStreamBuf::GetFlowControl"}
        /\ err = "ok" /\ ~closedAtCall /\ fails = 0)
       => result = class

\* The stream buffer's getter alone classifies as C19 says.
StreamFlowControlClassified ==
    call = "SerialStreamBuf::GetFlowControl" => FlowControlClassified

\* C20: after a SetCharSize of either API that succeeded, the size field
\* of the attributes is the argument, and ISTRIP is clear if the argument
\* is 8 bits and set if it is 5, 6 or 7 bits.
CharSizeSetsStrip ==
    (/\ pc = "ret"
     /\ \/ call = "SetCharSize" /\ err = "ok"
        \/ call = "SerialStreamBuf::SetCharSize" /\ result = argValue)
    => /\ devAttr.csize = argValue
       /\ "ISTRIP" \in devAttr.c_iflag <=> argValue # "CS8"

\* The stream buffer's SetCharSize alone does what C20 says.
StreamCharSizeSetsStrip ==
    call = "SerialStreamBuf::SetCharSize" => CharSizeSetsStrip

(***************************************************************************)
(* Properties of the stream buffer (SpecAttr, SpecPull, SpecPutback,       *)
(* SpecInput).                                                             *)
(***************************************************************************)
\* C21: a setter of the open stream buffer called with a value outside its
\* closed set (a speed it does not know, a number of stop bits other than
\* 1 and 2, an unknown parity, a flow control other than none, hardware
\* and software) returns its Invalid value and leaves the attributes of
\* the device as they were.
InvalidValueRejected ==
    [][(/\ pc = "idle" /\ pc' = "ret"
        /\ call' \in StreamSetters
        /\ sbFileDescriptor # -1
        /\ ~(/\ argValue' \in StreamSetterArgs(call')
             /\ StreamSetterAccepts(call', argValue')))
       => /\ result' = StreamInvalid(call')
          /\ devAttr' = devAttr]_vars

\* Every setter but SetFlowControl does what C21 says.
InvalidValueRejectedButFlowControl ==
    [][(/\ pc = "idle" /\ pc' = "ret"
        /\ call' \in StreamSetters \ {"SerialStreamBuf::SetFlowControl"}
        /\ sbFileDescriptor # -1
        /\ ~(/\ argValue' \in StreamSetterArgs(call')
             /\ StreamSetterAccepts(call', argValue')))
       => /\ result' = StreamInvalid(call')
          /\ devAttr' = devAttr]_vars

\* C22: on an open stream buffer pbackfail(c) returns the end marker when a
\* putback character is pending or c is the end marker, and then leaves
\* mPutbackChar and mPutbackAvailable as they were; otherwise it makes c the
\* pending putback character and returns a value other than the end marker.
PutbackHoldsOne ==
    [][(/\ pc = "idle" /\ pc' = "ret"
        /\ call' = "SerialStreamBuf::pbackfail"
        /\ sbFileDescriptor # -1)
       => IF mPutbackAvailable \/ argValue' = Eof
          THEN /\ result' = Eof
               /\ mPutbackChar' = mPutbackChar
               /\ mPutbackAvailable' = mPutbackAvailable
          ELSE /\ result' # Eof
               /\ mPutbackAvailable'
               /\ ToInt(mPutbackChar') = argValue']_vars

\* pbackfail(255) has returned the end marker because the character 7, put
\* back before, is still pending.
PutbackHoldsOneWitness ==
    /\ pc = "ret" /\ call = "SerialStreamBuf::pbackfail"
    /\ argValue = 255 /\ result = Eof
    /\ mPutbackAvailable /\ ToInt(mPutbackChar) = 7
    /\ sbLast = <<"SerialStreamBuf::pbackfail", Eof>>

\* C23: on an open stream buffer underflow does not consume: called right
\* after a pbackfail(b) that succeeded it returns b without reading the
\* device; called right after an underflow that returned a character it
\* returns that character again without reading the device; an underflow that
\* returns a character leaves it as the pending putback character, and no
\* underflow takes more than one byte from the device.
PullOnePeeks ==
    [][(/\ pc = "idle" /\ pc' = "ret"
        /\ call' = "SerialStreamBuf::underflow"
        /\ sbFileDescriptor # -1)
       => /\ (/\ sbLast[1] \in {"SerialStreamBuf::pbackfail",
                                "SerialStreamBuf::underflow"}
              /\ sbLast[2] # Eof)
             => /\ result' = sbLast[2]
                /\ devBuf' = devBuf
          /\ result' # Eof
             => /\ mPutbackAvailable'
                /\ ToInt(mPutbackChar') = result'
          /\ Len(devBuf') >= Len(devBuf) - 1
          /\ sbTaken' = sbTaken]_vars

\* underflow has returned 7, the character put back after one character was
\* consumed, and 7 is still pending while a byte waits in the device.
PullOnePeeksWitness ==
    /\ pc = "ret" /\ call = "SerialStreamBuf::underflow"
    /\ result = 7
    /\ mPutbackAvailable /\ ToInt(mPutbackChar) = 7
    /\ Len(sbTaken) = 1 /\ devBuf # <<>>

\* The characters uflow has returned, the pending putback character and the
\* bytes waiting in the device, in this order.
StreamPassed ==
    sbTaken \o (IF mPutbackAvailable THEN <<ToInt(mPutbackChar)>> ELSE <<>>)
            \o devBuf

\* C24: on an open stream buffer on which showmanyc, underflow and uflow are
\* called in any order, the characters uflow has returned, followed by the
\* pending character and the bytes still in the device, are always the bytes
\* the device received, in order; uflow returns the character the underflow
\* before it returned, adds it to the characters taken and leaves no putback
\* character pending.
ConsumeInOrder ==
    [][/\ StreamPassed' = [i \in 1..sent' |-> i]
       /\ (/\ pc = "idle" /\ pc' = "ret"
           /\ call' = "SerialStreamBuf::uflow"
           /\ sbFileDescriptor # -1)
          => /\ ~mPutbackAvailable'
             /\ (sbLast[1] = "SerialStreamBuf::underflow" /\ sbLast[2] # Eof)
                => result' = sbLast[2]
             /\ mPutbackAvailable => result' = ToInt(mPutbackChar)
             /\ sbTaken' = IF result' = Eof THEN sbTaken
                           ELSE Append(sbTaken, result')]_vars

\* uflow has returned the second byte of the device after showmanyc had made
\* it the pending character; the first byte was returned by an earlier uflow.
ConsumeInOrderWitness ==
    /\ pc = "ret" /\ call = "SerialStreamBuf::uflow"
    /\ result = 2 /\ sbTaken = <<1, 2>>
    /\ ~ioInCall
    /\ ~mPutbackAvailable /\ devBuf = <<>>

\* What C25 states of one xsgetn(s, n) step; dataBuffer' is what the call
\* stored in s.
PullManyStep ==
    /\ result' >= 0
    /\ result' = Len(dataBuffer')
    /\ (sbFileDescriptor # -1 /\ numOfBytes' > 0)
       => /\ ~mPutbackAvailable'
          /\ Len(dataBuffer') <= numOfBytes'
          /\ LET pending == IF mPutbackAvailable
                            THEN <<ToInt(mPutbackChar)>> ELSE <<>>
             IN  /\ dataBuffer' \o devBuf' = pending \o devBuf
                 /\ Len(dataBuffer') >= Len(pending)

\* C25: xsgetn(s, n) returns a value that is not negative and is the number
\* of characters it stored in s; a pending putback character is stored first
\* and counted, followed by at most n - 1 bytes of the device, and no putback
\* character is pending afterwards; with none pending the result is what
\* read returned, or 0.
PullManyCountsStored ==
    [][(/\ pc = "idle" /\ pc' = "ret"
        /\ call' = "SerialStreamBuf::xsgetn")
       => PullManyStep]_vars

\* The same for the calls whose read does not return -1.
PullManyCountsStoredWhenReadWorks ==
    [][(/\ pc = "idle" /\ pc' = "ret"
        /\ call' = "SerialStreamBuf::xsgetn"
        /\ fails' = fails
        /\ StreamFdOk
        /\ ~(devBuf = <<>> /\ osFds[sbFileDescriptor].nonblock))
       => PullManyStep]_vars

\* What every showmanyc step on an open stream buffer does: the result is 0,
\* 1 or -1; with a putback character pending it is 1 and the device is not
\* touched; with none pending, 1 means one byte was taken from the device, 0
\* means none was, and a byte taken is the pending putback character.
PeekAvailableStep ==
    LET taken == devBuf' # devBuf IN
    /\ result' \in {0, 1, -1}
    /\ mPutbackAvailable
       => /\ result' = 1
          /\ UNCHANGED <<mPutbackChar, mPutbackAvailable, osFds, devBuf,
                         fails>>
    /\ ~mPutbackAvailable
       => /\ result' = 1 => taken
          /\ result' = 0 => ~taken
          /\ mPutbackAvailable' = taken
          /\ taken => /\ ToInt(mPutbackChar') = Head(devBuf)
                      /\ devBuf' = Tail(devBuf)

\* C26 as stated: showmanyc returns 1 without touching the device when a
\* putback character is pending; otherwise it returns 1 exactly when it took
\* one byte from the device, which is then the pending putback character; it
\* returns only 0, 1 or -1, and the descriptor is blocking after the call
\* exactly when it was blocking before.
PeekAvailableRestoresMode ==
    [][(/\ pc = "idle" /\ pc' = "ret"
        /\ call' = "SerialStreamBuf::showmanyc"
        /\ StreamFdOk)
       => /\ PeekAvailableStep
          /\ result' = 1 <=> mPutbackAvailable'
          /\ osFds'[sbFileDescriptor].nonblock
               = osFds[sbFileDescriptor].nonblock]_vars

\* C26, amended: as above, but the descriptor has its former mode, and 1 is
\* returned exactly when a byte is pending, for the calls that return 0 or
\* 1; a call that returns -1 had an OS call fail, and when that is the fcntl
\* that switches back, the descriptor stays non-blocking and a byte that was
\* read stays pending.
PeekAvailableFrame ==
    [][(/\ pc = "idle" /\ pc' = "ret"
        /\ call' = "SerialStreamBuf::showmanyc"
        /\ StreamFdOk)
       => /\ PeekAvailableStep
          /\ result' \in {0, 1}
             => /\ osFds' = osFds
                /\ result' = 1 <=> mPutbackAvailable'
          /\ result' = -1
             => /\ fails' > fails
                /\ osFds' # osFds
                   => osFds' = [osFds EXCEPT
                                  ![sbFileDescriptor].nonblock = TRUE]]_vars

\* showmanyc has read the first byte of the device, which is now pending,
\* and has returned 1 with the descriptor blocking again.
PeekAvailableFrameWitness ==
    /\ pc = "ret" /\ call = "SerialStreamBuf::showmanyc"
    /\ result = 1 /\ ioInCall
    /\ mPutbackAvailable /\ ToInt(mPutbackChar) = 1
    /\ sbTaken = <<>>
    /\ ~osFds[sbFileDescriptor].nonblock

\* What an operation returns on a stream buffer that is not open.
ClosedSentinel(op) ==
    CASE op \in StreamSetters \cup StreamGetters -> StreamInvalid(op)
      [] op = "SerialStreamBuf::xsgetn" -> 0
      [] op = "SerialStreamBuf::showmanyc" -> -1
      [] op \in {"SerialStreamBuf::underflow", "SerialStreamBuf::uflow",
                 "SerialStreamBuf::pbackfail"} -> Eof

\* The same for the operations other than uflow.
ClosedBufferRejectsButUflow ==
    [][(/\ pc = "idle" /\ pc' = "ret"
        /\ sbFileDescriptor = -1
        /\ call' \in (StreamSetters \cup StreamGetters
                      \cup {"SerialStreamBuf::xsgetn",
                            "SerialStreamBuf::showmanyc",
                            "SerialStreamBuf::underflow",
                            "SerialStreamBuf::pbackfail"}))
       => /\ result' = ClosedSentinel(call')
          /\ UNCHANGED <<mPutbackChar, mPutbackAvailable, devVars, fails>>
          /\ ~ioInCall']_vars

\* C27: on a stream buffer that is not open every attribute setter and
\* getter, xsgetn, showmanyc, underflow, uflow and pbackfail returns its
\* failure value, makes no OS call and leaves mPutbackChar and
\* mPutbackAvailable as they were.
ClosedBufferRejects ==
    [][(/\ pc = "idle" /\ pc' = "ret"
        /\ sbFileDescriptor = -1
        /\ call' \in (StreamSetters \cup StreamGetters
                      \cup {"SerialStreamBuf::xsgetn",
                            "SerialStreamBuf::showmanyc",
                            "SerialStreamBuf::underflow",
                            "SerialStreamBuf::uflow",
                            "SerialStreamBuf::pbackfail"}))
       => /\ result' = ClosedSentinel(call')
          /\ UNCHANGED <<mPutbackChar, mPutbackAvailable, devVars, fails>>
          /\ ~ioInCall']_vars

\* is_open()
is_open == sbFileDescriptor # -1

\* open() on an open buffer fails and changes nothing, and close() on a
\* closed buffer fails.
StreamRejectsRepeated ==
    /\ (/\ pc = "idle" /\ pc' = "ret"
        /\ call' = "SerialStreamBuf::open" /\ is_open)
       => /\ result' = FALSE
          /\ UNCHANGED <<sbFileDescriptor, mPutbackChar, mPutbackAvailable,
                         devVars, fails>>
    /\ (/\ pc = "idle" /\ pc' = "ret"
        /\ call' = "SerialStreamBuf::close" /\ ~is_open)
       => /\ result' = FALSE
          /\ UNCHANGED <<sbFileDescriptor, devVars, fails>>

\* C28: after any sequence of open() and close() calls is_open() is true
\* exactly when the last open() of a closed buffer succeeded and no close()
\* has succeeded since, so it is false after an open() that failed; open()
\* on an open buffer fails and changes nothing, and close() on a closed
\* buffer fails.
StreamLifecycle ==
    [][/\ is_open' <=> sbOpened'
       /\ StreamRejectsRepeated]_vars

\* The part of it that does not depend on how open() fails: a buffer whose
\* open() succeeded is open until a close() succeeds.
StreamLifecycleOfSuccess ==
    [][/\ sbOpened' => is_open'
       /\ StreamRejectsRepeated]_vars

(***************************************************************************)
(* Properties of the modem control lines (SpecModem).                      *)
(***************************************************************************)
\* C29: on an open port a SetDtr or SetRts call with state s that returns
\* normally leaves its line in state s, which is what the getter of the line
\* then returns, and leaves every other line as it was; a call whose ioctl
\* fails raises the I/O error and changes no line.
ModemSetThenGet ==
    [][/\ (/\ pc = "idle" /\ pc' = "ret" /\ mIsOpen
           /\ call' \in {"SetDtr", "SetRts"})
          => IF err' = "ok"
             THEN /\ (argValue'[1] \in modemLines') = argValue'[2]
                  /\ modemLines' \ {argValue'[1]}
                       = modemLines \ {argValue'[1]}
             ELSE /\ err' = "RuntimeError"
                  /\ fails' = fails + 1
                  /\ modemLines' = modemLines
       /\ (/\ pc = "idle" /\ pc' = "ret" /\ mIsOpen
           /\ call' \in {"GetDtr", "GetRts", "GetCts", "GetDsr"}
           /\ err' = "ok")
          => /\ result' = (argValue' \in modemLines)
             /\ modemLines' = modemLines]_vars

\* GetDtr returns true after DTR and then RTS were raised.
ModemSetThenGetWitness ==
    /\ pc = "ret" /\ call = "GetDtr" /\ err = "ok"
    /\ result = TRUE
    /\ configured = 2
    /\ {"TIOCM_DTR", "TIOCM_RTS"} \subseteq modemLines

(***************************************************************************)
(* Properties of the queue lock (Spec).                                    *)
(***************************************************************************)
\* Every push of the handler to mInputBuffer is made with the handler
\* holding mQueueMutex, and the pop and the flag write of ReadByte are made
\* with the application holding it.
LockHeldOnQueue ==
    /\ (hpc \in {"h_drain", "h_read"} /\ mInputBuffer' # mInputBuffer)
       => mQueueMutex = "sig"
    /\ (pc = "rb_pop" /\ pc' = "rb_flag") => mQueueMutex = "app"
    /\ (pc = "rb_flag" /\ pc' = "rb_unlock3") => mQueueMutex = "app"

\* The same as a property of Spec.
LockHeldOnQueueAccess == [][LockHeldOnQueue]_vars

\* C30: every push to and pop from mInputBuffer and every write of
\* mIsQueueDataAvailable is made by a context that holds mQueueMutex at that
\* moment: in the handler on every path, in ReadByte and in Open.
LockHeldOnAccess ==
    [][/\ LockHeldOnQueue
       /\ (hpc = "h_flag" /\ hpc' = "h_unlock") => mQueueMutex = "sig"
       /\ (pc = "open_flag" /\ pc' = "ret") => mQueueMutex = "app"]_vars

\* The handler alone: its write of mIsQueueDataAvailable is made with the
\* lock held.
HandlerFlagUnderLock ==
    [][(hpc = "h_flag" /\ hpc' = "h_unlock") => mQueueMutex = "sig"]_vars

\* The handler is between its pthread_mutex_trylock that succeeded and its
\* last pthread_mutex_unlock.
HandlerInSection == hpc \in {"h_drain", "h_read", "h_flag", "h_unlock"}

\* The application is between a pthread_mutex_lock and the
\* pthread_mutex_unlock that follows it.
ReaderInSection ==
    pc \in {"rb_size1", "rb_size2", "rb_front", "rb_pop", "rb_flag",
            "rb_unlock3"}

\* The handler and the application are not both inside a section that
\* mQueueMutex protects.
OneInSection == ~(HandlerInSection /\ ReaderInSection)

\* C31: every pthread_mutex_unlock of the handler is made while the handler
\* holds mQueueMutex, so that it unlocks once for each trylock that
\* succeeded, on every path; and the handler and the application are never
\* both inside a section the mutex protects.
HandlerUnlocksOnce ==
    [][/\ (hpc = "h_read" /\ hpc' = "h_flag" /\ mQueueMutex' # mQueueMutex)
          => mQueueMutex = "sig"
       /\ (hpc = "h_unlock" /\ hpc' = "h_idle") => mQueueMutex = "sig"
       /\ OneInSection']_vars

\* The part of it that holds when one thread runs the application and the
\* handler: the two are never inside a section at the same time.
OneInSectionAlways == [][OneInSection']_vars

(***************************************************************************)
(* Properties of the shadow queue (SpecRead).                              *)
(***************************************************************************)
\* C32: whenever the handler appends a byte it has just read from the
\* descriptor to mInputBuffer, mShadowInputBuffer is empty, and every byte
\* that was diverted to the shadow queue before is in mInputBuffer, ahead of
\* the new byte, or has been returned by ReadByte.
ShadowDrainedFirst ==
    [][(hpc = "h_read" /\ hi' = hi + 1)
       => /\ mShadowInputBuffer = <<>>
          /\ mInputBuffer' = Append(mInputBuffer, Head(devBuf))
          /\ \A b \in shadowed :
               \/ \E i \in 1..Len(mInputBuffer) : mInputBuffer[i] = b
               \/ \E i \in 1..Len(returned) : returned[i] = b]_vars

\* The handler has appended byte 2, read from the descriptor, behind byte 1,
\* which it had diverted to the shadow queue in an earlier run.
ShadowDrainedFirstWitness ==
    /\ hpc = "h_read" /\ hi = 1
    /\ shadowed = {1}
    /\ mInputBuffer = <<1, 2>>
    /\ mShadowInputBuffer = <<>>

\* The first part of it, which does not depend on which thread handles
\* SIGIO.
ShadowEmptyAtPush ==
    [][(hpc = "h_read" /\ hi' = hi + 1) => mShadowInputBuffer = <<>>]_vars

(***************************************************************************)
(* Termination of the handler (SpecRead).                                  *)
(***************************************************************************)
\* The turns of its loops the handler has still to make: one for each byte
\* of the shadow queue it has to move and one for each byte FIONREAD
\* reported and it has not read.
HandlerTurns ==
    (IF hpc \in {"h_trylock", "h_drain"} THEN Len(mShadowInputBuffer) ELSE 0)
      + (num_of_bytes_available - hi)

\* The statements the handler has still to execute after its loops.
HandlerTail ==
    CASE hpc = "h_trylock" -> 5
      [] hpc = "h_drain" -> 4
      [] hpc \in {"h_read", "h_shadow"} -> 3
      [] hpc = "h_flag" -> 2
      [] hpc = "h_unlock" -> 1
      [] OTHER -> 0

HandlerRank == 6 * HandlerTurns + HandlerTail

\* C33: a handler that has been called can always take its next step,
\* whoever holds mQueueMutex, and once FIONREAD has reported the number of
\* bytes every step of the handler lowers the number of loop turns and
\* statements it has left, which starts at the length of the shadow queue
\* plus the number reported; no other step raises it.
HandlerNeverWaits ==
    [][/\ hpc # "h_idle" => ENABLED Handler
       /\ hpc \notin {"h_idle", "h_ioctl"}
          => /\ HandlerRank' <= HandlerRank
             /\ HandlerTurns' >= 0
             /\ (sigVars' # sigVars
                 \/ mShadowInputBuffer' # mShadowInputBuffer)
                => HandlerRank' < HandlerRank]_vars

\* The handler, called while ReadByte holds the lock, has diverted a byte to
\* the shadow queue and is about to return.
HandlerNeverWaitsWitness ==
    /\ hpc = "h_shadow" /\ mQueueMutex = "app"
    /\ hi = 1 /\ num_of_bytes_available = 1
    /\ mShadowInputBuffer = <<1>>

(***************************************************************************)
(* Properties of two readers (SpecReaders).                                *)
(***************************************************************************)
\* The bytes ReadByte has returned, to either thread.
ReturnedToAny == returned \o returned2

\* C34: with two threads calling ReadByte on the same open port, and no OS
\* call failing, neither thread takes the front of or pops an empty
\* mInputBuffer, and no byte has been returned twice.
ReadersNeverTakeEmpty ==
    [][fails' = 0
       => /\ (pc \in {"rb_front", "rb_pop"} /\ pc' # pc)
             => mInputBuffer # <<>>
          /\ (pc2 \in {"rb_front", "rb_pop"} /\ pc2' # pc2)
             => mInputBuffer # <<>>
          /\ \A i, j \in 1..Len(ReturnedToAny') :
               i # j => ReturnedToAny'[i] # ReturnedToAny'[j]]_vars

\* What holds of one thread alone: the first thread never takes the front
\* of an empty queue when the second does not run.
OneReaderNeverTakesEmpty ==
    [][(returned2' = <<>> /\ pc2' = "idle"
        /\ pc \in {"rb_front", "rb_pop"} /\ pc' # pc)
       => mInputBuffer # <<>>]_vars


(***************************************************************************)
(* A new session and the bytes of an earlier one.                          *)
(***************************************************************************)
\* The bytes the handler had read from the device before the last Open began.
HandledBeforeOpen ==
    {hread[i] : i \in 1..(IF handledAtOpen <= Len(hread) THEN handledAtOpen
                                                        ELSE Len(hread))}

\* The bytes in the receive queue and in the shadow queue.
Queued ==
    {mInputBuffer[i] : i \in 1..Len(mInputBuffer)}
        \cup {mShadowInputBuffer[i] : i \in 1..Len(mShadowInputBuffer)}

\* Open returns without an exception: its last statement has run.
OpenSucceeds == pc = "open_flag" /\ pc' = "ret" /\ err' = "ok"

\* The state Open leaves is the one of a fresh session.
FreshSession ==
    /\ Queued \cap HandledBeforeOpen = {}
    /\ Len(hread) = handledAtOpen
           => /\ mInputBuffer = <<>> /\ mShadowInputBuffer = <<>>
              /\ ~mIsQueueDataAvailable

\* C35: when Open returns successfully, the receive queue and the shadow
\* queue hold no byte the handler read before this Open began; if no byte
\* was handled during the Open both queues are empty and
\* mIsQueueDataAvailable is false.  ReadByte therefore never returns a byte
\* of an earlier session.
OpenStartsEmpty == [][OpenSucceeds => FreshSession']_vars

\* What Open does establish: the availability flag is false when it returns.
OpenClearsFlag == [][OpenSucceeds => ~mIsQueueDataAvailable']_vars

\* The same when no system call has failed: the bytes of a session that was
\* closed normally.
OpenStartsEmptyWhenOsWorks ==
    [][(OpenSucceeds /\ fails = 0) => FreshSession']_vars


(***************************************************************************)
(* The descriptor and the attributes a successful Open leaves.             *)
(***************************************************************************)
\* Asynchronous notification is enabled and directed to this process.
OpenNotifies ==
    /\ mFileDescriptor \in DOMAIN osFds
    /\ osFds[mFileDescriptor].async /\ osFds[mFileDescriptor].owner

\* mOldPortSettings holds what the device had before Open wrote to it, and
\* the attributes in force have VMIN = 0 and VTIME = 0.
OpenSnapshot ==
    /\ mOldPortSettings = snapAtOpen
    /\ devAttr.c_cc.VMIN = 0 /\ devAttr.c_cc.VTIME = 0

\* C36: when Open returns successfully the descriptor is non-blocking, with
\* asynchronous notification enabled and directed to the current process,
\* mOldPortSettings is the snapshot of the attributes before Open changed
\* them, and the attributes in force have VMIN = 0 and VTIME = 0.
OpenLeavesNonBlocking ==
    [][OpenSucceeds => /\ OpenNotifies' /\ OpenSnapshot'
                       /\ osFds'[mFileDescriptor'].nonblock]_vars

\* All of it but the non-blocking mode.
OpenLeavesAsync == [][OpenSucceeds => OpenNotifies' /\ OpenSnapshot']_vars


(***************************************************************************)
(* SerialStreamBuf::open and the steps of its initialization.              *)
(***************************************************************************)
\* The steps of InitializeSerialPort and SetParametersToDefault that can fail.
InitSteps == {"F_SETFL", "tcflush", "tcgetattr", "tcsetattr"} \cup DefaultSetters

\* open() has called the OS and returns.
StreamOpenReturns ==
    pc = "idle" /\ pc' = "ret" /\ call' = "SerialStreamBuf::open" /\ ioInCall'

\* C37: open() returns failure whenever a step of its initialization
\* failed (SetParametersToDefault and InitializeSerialPort return -1 exactly
\* when one of their steps failed): an open() during which a call of the OS
\* failed returns 0.
OpenFailsWhenInitFails ==
    [][(StreamOpenReturns /\ fails' > fails) => result' = FALSE]_vars

\* An open() during which no call failed succeeds.
OpenSucceedsWhenOsWorks ==
    [][(StreamOpenReturns /\ fails' = fails) => result' = TRUE]_vars

\* InitializeSerialPort returns -1 for every failed step but one, the
\* failure of SetNumOfStopBits, and 0 when no step failed.
InitResultOfSteps ==
    /\ \A step \in InitSteps \ {"SerialStreamBuf::SetNumOfStopBits"} :
           InitializeSerialPort(step) = -1
    /\ InitializeSerialPort("SerialStreamBuf::SetNumOfStopBits") = 0
    /\ InitializeSerialPort("none") = 0


(***************************************************************************)
(* The seven setters of the stream buffer and what they return.            *)
(***************************************************************************)
\* A setter of the stream buffer returns a value other than its failure value.
StreamSetterSucceeds ==
    /\ pc = "idle" /\ pc' = "ret"
    /\ call' \in StreamSetters \cup CcSetters
    /\ result' # StreamInvalid(call')

\* The value the getter of the setter just called derives from the device.
ReadBack == StreamGetterValue(StreamGetterOf(call), devAttr)

\* C38: a setter of the stream buffer (baud rate, character size, stop bits,
\* parity, flow control, VMIN, VTIME) that reports success returns the value
\* its getter reads from the device right after, also when the device holds
\* another value than the one asked for.
SettersReturnReadBack ==
    [][StreamSetterSucceeds => result' = ReadBack']_vars

\* The five setters that end with a call of their getter do.
FiveSettersReturnReadBack ==
    [][(StreamSetterSucceeds /\ call' \in StreamSetters)
          => result' = ReadBack']_vars

\* SetVMin and SetVTime return their argument.
CcSettersReturnArgument ==
    [][(StreamSetterSucceeds /\ call' \in CcSetters)
          => result' = argValue']_vars


(***************************************************************************)
(* The putback character and a new session of the stream buffer.           *)
(***************************************************************************)
\* C39: when open() of the stream buffer succeeds no putback character is
\* pending: what underflow, showmanyc or pbackfail left in mPutbackChar
\* before close() is not delivered after the next open().
OpenDropsPutback ==
    [][(StreamOpenReturns /\ result' = TRUE) => ~mPutbackAvailable']_vars

\* A buffer that was never closed and opened again: constructed, it holds
\* no putback character.
ConstructedWithoutPutback == StreamConstructed => ~mPutbackAvailable

\* The same when no call of the OS has failed.
OpenDropsPutbackWhenOsWorks ==
    [][(StreamOpenReturns /\ result' = TRUE /\ fails' = 0)
          => ~mPutbackAvailable']_vars


(***************************************************************************)
(* What a setter of the stream buffer leaves alone.                        *)
(***************************************************************************)
\* The getters of the attributes the setter just called does not set.
OtherGetters == (StreamGetters \cup CcGetters) \ {StreamGetterOf(call)}

\* C40: a setter of the stream buffer that succeeds changes its own
\* attribute only: every getter of another attribute derives the same value
\* from the device after the call as before it, whatever attributes the
\* device held.
SetterKeepsOthers ==
    [][StreamSetterSucceeds
          => \A g \in OtherGetters' :
                 StreamGetterValue(g, devAttr') = StreamGetterValue(g, devAttr)]_vars

\* SetFlowControl has returned Hard on a device with 7 bits, odd parity, two
\* stop bits and VMIN 2 set before.
SetterKeepsOthersWitness ==
    /\ pc = "ret" /\ call = "SerialStreamBuf::SetFlowControl"
    /\ result = "FLOW_CONTROL_HARD"
    /\ devAttr.csize = "CS7" /\ devAttr.c_cc.VMIN = 2
    /\ {"PARENB", "PARODD", "CSTOPB", "CRTSCTS"} \subseteq devAttr.c_cflag

=============================================================================
